---- MODULE Spec2Model ----
(***************************************************************************)
(* Fynorra RAG backend: the ingestion pipeline of the production platform  *)
(* (POST upload / POST scrape, the Celery worker process_doc, GET          *)
(* upload/status, POST query, POST admin/reindex) as a state machine over  *)
(* the relational tables, the object storage, the task queue and the       *)
(* vector index.                                                           *)
(***************************************************************************)
EXTENDS Integers, Sequences, FiniteSets, Bags, TLC

(***************************************************************************)
(* Bounds of the model.                                                    *)
(***************************************************************************)
\* Upload/scrape requests accepted in one behaviour.
MaxDocs == 1
\* Times the broker hands an already delivered task message to a worker again.
MaxRedeliver == 1
\* Request threads inside get_or_create_user at the same time.
NumThreads == 2
\* Longest text handed to the chunker on its own.
MaxTextLen == 8
\* Largest chunk size of a chunker configuration.
MaxChunkSize == 7
\* Iterations of a chunker loop that are followed.
MaxChunks == 6
MaxPageLen == 4
MaxBrainDocs == 3

(***************************************************************************)
(* Program constants.  The chunking and batching sizes are the configured  *)
(* values scaled down (1000/200/64 in src/src/config.py) so that a page of *)
(* a few characters spans several windows and several upsert batches.      *)
(***************************************************************************)
CHUNK_SIZE == 5
CHUNK_OVERLAP == 1
BATCH_SIZE == 2
MAX_UPLOAD_BYTES == 20971520
MAX_RETRIES == 3
FERNET_KEY_LEN == 44
KEY_BYTES == 32

\* Python's None.
None == "None"

Min(a, b) == IF a < b THEN a ELSE b

(***************************************************************************)
(* Text: a string is a sequence of characters.                             *)
(***************************************************************************)
NL == "\n"
Whitespace == {" ", NL}

\* A slice bound of Python: a negative one counts from the end, and both
\* are clipped to 0..n.
SliceBound(i, n) == IF i < 0 THEN (IF i + n < 0 THEN 0 ELSE i + n)
                    ELSE IF i > n THEN n ELSE i

\* s[a:b] of Python, 0-based.
Slice(s, a, b) ==
    LET lo == SliceBound(a, Len(s))
        hi == SliceBound(b, Len(s))
    IN  IF hi <= lo THEN << >> ELSE SubSeq(s, lo + 1, hi)

\* str.strip()
RECURSIVE LStrip(_)
LStrip(s) == IF s = << >> THEN s
             ELSE IF Head(s) \in Whitespace THEN LStrip(Tail(s)) ELSE s

RECURSIVE RStrip(_)
RStrip(s) == IF s = << >> THEN s
             ELSE IF s[Len(s)] \in Whitespace THEN RStrip(SubSeq(s, 1, Len(s) - 1)) ELSE s

Strip(s) == RStrip(LStrip(s))

\* str.rfind(pat): the highest 0-based index at which pat occurs in s, or -1.
RFind(s, pat) ==
    LET hits == {i \in 0..(Len(s) - Len(pat)) : Slice(s, i, i + Len(pat)) = pat}
    IN  IF hits = {} THEN -1 ELSE CHOOSE i \in hits : \A k \in hits : k <= i

\* The break strings of the chunker, in the order they are tried.
BreakChars == << <<".", NL>>, <<".", NL, NL>>, <<".", NL, " ">>, <<NL, NL>>, <<NL>> >>

\* The end of the window starting at start: the for/break loop over the
\* break strings, taken only when the window does not reach the page's end.
RECURSIVE BreakEnd(_, _, _, _, _)
BreakEnd(text, start, end, max_chars, k) ==
    IF k > Len(BreakChars) THEN end
    ELSE LET last_break == RFind(Slice(text, start, end), BreakChars[k])
         IN  IF 2 * last_break > max_chars
             THEN start + last_break + 1
             ELSE BreakEnd(text, start, end, max_chars, k + 1)

WindowEnd(text, start, max_chars) ==
    LET end == Min(start + max_chars, Len(text))
    IN  IF end < Len(text) THEN BreakEnd(text, start, end, max_chars, 1) ELSE end

\* The while loop over one page: the chunks of page_text from offset start,
\* numbered from idx.
RECURSIVE PageChunks(_, _, _, _, _, _)
PageChunks(page_text, page_no, start, idx, max_chars, overlap) ==
    IF start >= Len(page_text) THEN << >>
    ELSE LET end  == WindowEnd(page_text, start, max_chars)
             body == Strip(Slice(page_text, start, end))
             next == IF end < Len(page_text) THEN end - overlap ELSE end
         IN  << [text |-> body, page |-> page_no, chunk_index |-> idx,
                 start_char |-> start, end_char |-> end,
                 preview |-> Slice(body, 0, Min(200, Len(body)))] >>
             \o PageChunks(page_text, page_no, next, idx + 1, max_chars, overlap)

\* TextChunker.chunk_pages: the for loop over the pages from page p on.
RECURSIVE ChunkPagesFrom(_, _, _, _, _)
ChunkPagesFrom(pages, p, idx, max_chars, overlap) ==
    IF p > Len(pages) THEN << >>
    ELSE IF Strip(pages[p]) = << >>
         THEN ChunkPagesFrom(pages, p + 1, idx, max_chars, overlap)
         ELSE LET cs == PageChunks(pages[p], p, 0, idx, max_chars, overlap)
              IN  cs \o ChunkPagesFrom(pages, p + 1, idx + Len(cs), max_chars, overlap)

chunk_pages(pages, max_chars, overlap) ==
    ChunkPagesFrom(pages, 1, 0,
                   IF max_chars = 0 THEN CHUNK_SIZE ELSE max_chars,
                   IF overlap = 0 THEN CHUNK_OVERLAP ELSE overlap)


(***************************************************************************)
(* Inputs.                                                                 *)
(***************************************************************************)
\* External identifiers carried by the X-User-Id header.
ExtIds == {"alice", "bob"}

\* What a stored file or a fetched URL extracts to: a non-empty list of
\* pages (the extractors return [""] rather than an empty list).
SampleContents ==
    << << << >> >>,
       << <<"a", "b">> >>,
       << <<"a", ".", NL, "b">>, <<"c", "d", ".", NL, "e", "f", "g">> >> >>

\* Uploaded files: the extension of the file name (None: a name without a
\* dot) and what the bytes extract to.
SampleFiles ==
    {[ext |-> "pdf", content |-> SampleContents[1]],
     [ext |-> "pdf", content |-> SampleContents[2]],
     [ext |-> "pdf", content |-> SampleContents[3]],
     [ext |-> None,  content |-> SampleContents[3]],
     [ext |-> "exe", content |-> SampleContents[2]]}

\* What fetching a scraped URL yields: a page without text, a page with text.
ScrapedPages == {SampleContents[1], SampleContents[2]}

\* Error texts of the vector-index upsert: a transient one and a permanent one.
UpsertErrors == {"429 Too Many Requests", "401 Unauthorized"}

VARIABLES
    users,        \* users table: the external ids, the row's index is the internal id
    documents,    \* documents table, indexed by document id
    jobs,         \* ingest_jobs table, indexed by job id
    chunks,       \* chunks table: one record per row
    storage,      \* object storage: the content stored under each path
    index,        \* vector index: the set of vectors, each in its namespace
    queue,        \* task messages waiting in the broker (a bag: any may come next)
    delivered,    \* task messages a worker has received
    redeliveries, \* number of re-deliveries so far
    w,            \* the worker process executing process_doc
    req,          \* the upload/scrape request between its commit and its enqueue
    resp,         \* the HTTP response the last step sent, NoResp if it sent none
    apiEnqueued,  \* per job, the number of process_doc.delay calls made for it
    auth,         \* the concurrent get_or_create_user calls, one per request thread
    settings,     \* user_settings table: the set of rows
    call,         \* a library function under evaluation: its name and arguments
    ret,          \* what that function returned or raised, NoRet before it ended
    demo          \* the standalone demo (app.py): its sessions on disk and its timers

vars == <<users, documents, jobs, chunks, storage, index, queue, delivered,
          redeliveries, w, req, resp, apiEnqueued, auth, settings, call, ret, demo>>

\* What the ingestion pipeline leaves alone.
aux == <<auth, settings, call, ret, demo>>

\* What get_or_create_user and the settings API leave alone.
pipeline == <<documents, jobs, chunks, storage, index, queue, delivered,
              redeliveries, w, req, resp, apiEnqueued>>

\* The worker: its position, the task it runs, the extracted pages, the
\* batches upserted, and of the current execution the committed progress
\* values (log), the number of vector-index calls and of Chunk rows written.
Idle == [pc |-> "idle", job_id |-> 0, retries |-> 0, pages |-> << >>, batches |-> 0,
         log |-> << >>, calls |-> 0, rows |-> 0, outcome |-> None, raised |-> None]

NoReq == [pc |-> "idle", caller |-> 0, job_id |-> 0, document_id |-> 0]

\* A response: its JSON fields; 0 (ids), -1 (progress) and None (texts) stand
\* for a field the body does not have.
\* caller is the internal id of the requesting user, arg the id the request names.
NoResp == [op |-> None, caller |-> 0, arg |-> 0, code |-> 0, jobId |-> 0, documentId |-> 0,
           status |-> None, progress |-> -1, errorMessage |-> None, sources |-> {}]

\* Request threads that may run get_or_create_user at the same time.
Threads == 1..NumThreads

NoAuth == [pc |-> "idle", ext |-> None, user |-> 0, result |-> 0]

NoCall == [fn |-> None]

NoRet == [done |-> FALSE]

\* Sessions of the standalone demo.
MaxSessions == 2
Sessions == 1..MaxSessions

\* The demo before any upload: per session the position of its upload
\* request, whether data/uploads/<sid>.pdf and data/indexes/<sid> exist, the
\* delay of its cleanup thread (0: none started) and whether that thread ran;
\* last is the response of the last request.
NoDemo ==
    [pc    |-> [sid \in Sessions |-> "none"],
     file  |-> [sid \in Sessions |-> FALSE],
     idx   |-> [sid \in Sessions |-> FALSE],
     delay |-> [sid \in Sessions |-> 0],
     ran   |-> [sid \in Sessions |-> FALSE],
     last  |-> [op |-> None, sid |-> 0, code |-> 0]]

Tables ==
    /\ demo = NoDemo
    /\ users = << >>
    /\ documents = << >>
    /\ jobs = << >>
    /\ chunks = << >>
    /\ storage = << >>
    /\ index = {}
    /\ queue = EmptyBag
    /\ delivered = {}
    /\ redeliveries = 0
    /\ w = Idle
    /\ req = NoReq
    /\ resp = NoResp
    /\ apiEnqueued = << >>
    /\ auth = [t \in Threads |-> NoAuth]
    /\ settings = {}

Init ==
    /\ Tables
    /\ call = NoCall
    /\ ret = NoRet

(***************************************************************************)
(* Authentication: get_or_create_user.                                     *)
(***************************************************************************)
HasUser(us, ext) == \E i \in 1..Len(us) : us[i] = ext

\* The users table after get_or_create_user(ext).
UsersAfter(us, ext) == IF HasUser(us, ext) THEN us ELSE Append(us, ext)

\* The internal id get_or_create_user(ext) returns.
UserId(us, ext) == CHOOSE i \in 1..Len(UsersAfter(us, ext)) : UsersAfter(us, ext)[i] = ext


(***************************************************************************)
(* Ingestion API (src/src/api/ingest.py).                                  *)
(***************************************************************************)
NewDocument(user_id, source_type, file_type, storage_path) ==
    [user_id |-> user_id, source_type |-> source_type, file_type |-> file_type,
     storage_path |-> storage_path, chunk_count |-> 0, status |-> "pending"]

NewJob(user_id, document_id, job_type) ==
    [user_id |-> user_id, document_id |-> document_id, job_type |-> job_type,
     status |-> "queued", progress |-> 0, error_message |-> None]

\* file.filename.split(".")[-1] if "." in file.filename else "txt"
FileType(ext) == IF ext = None THEN "txt" ELSE ext

Response(op, caller, code) == [NoResp EXCEPT !.op = op, !.caller = caller, !.code = code]

\* UploadFile refusing a file of exactly MAX_UPLOAD_BYTES bytes too.
UploadFileStrict(ext_id, ext, content, size) ==
    LET user_id == UserId(users, ext_id)
        path    == Len(storage) + 1
        doc_id  == Len(documents) + 1
        job_id  == Len(jobs) + 1
    IN  /\ req.pc = "idle"
        /\ Len(jobs) < MaxDocs
        /\ Len(storage) < MaxDocs
        /\ users' = UsersAfter(users, ext_id)
        /\ \/ /\ size >= MAX_UPLOAD_BYTES
              /\ resp' = Response("upload", user_id, 400)
              /\ UNCHANGED <<storage, documents, jobs, apiEnqueued, req>>
           \/ \* storage.upload_file raises
              /\ size < MAX_UPLOAD_BYTES
              /\ resp' = Response("upload", user_id, 500)
              /\ UNCHANGED <<storage, documents, jobs, apiEnqueued, req>>
           \/ \* db.commit() raises: rollback, the stored object stays
              /\ size < MAX_UPLOAD_BYTES
              /\ storage' = Append(storage, content)
              /\ resp' = Response("upload", user_id, 500)
              /\ UNCHANGED <<documents, jobs, apiEnqueued, req>>
           \/ /\ size < MAX_UPLOAD_BYTES
              /\ storage' = Append(storage, content)
              /\ documents' = Append(documents,
                                     NewDocument(user_id, "upload", FileType(ext), path))
              /\ jobs' = Append(jobs, NewJob(user_id, doc_id, "upload"))
              /\ apiEnqueued' = Append(apiEnqueued, 0)
              /\ req' = [pc |-> "committed", caller |-> user_id, job_id |-> job_id,
                         document_id |-> doc_id]
              /\ resp' = NoResp
        /\ UNCHANGED <<chunks, index, queue, delivered, redeliveries, w>>
        /\ UNCHANGED aux

\* POST upload up to db.commit(): user resolution, size check, storage
\* upload, Document and IngestJob rows.
UploadFile(ext_id, ext, content, size) ==
    LET user_id == UserId(users, ext_id)
        path    == Len(storage) + 1
        doc_id  == Len(documents) + 1
        job_id  == Len(jobs) + 1
    IN  /\ req.pc = "idle"
        /\ Len(jobs) < MaxDocs
        /\ Len(storage) < MaxDocs
        /\ users' = UsersAfter(users, ext_id)
        /\ \/ /\ size > MAX_UPLOAD_BYTES
              /\ resp' = Response("upload", user_id, 400)
              /\ UNCHANGED <<storage, documents, jobs, apiEnqueued, req>>
           \/ \* storage.upload_file raises
              /\ size <= MAX_UPLOAD_BYTES
              /\ resp' = Response("upload", user_id, 500)
              /\ UNCHANGED <<storage, documents, jobs, apiEnqueued, req>>
           \/ \* db.commit() raises: rollback, the stored object stays
              /\ size <= MAX_UPLOAD_BYTES
              /\ storage' = Append(storage, content)
              /\ resp' = Response("upload", user_id, 500)
              /\ UNCHANGED <<documents, jobs, apiEnqueued, req>>
           \/ /\ size <= MAX_UPLOAD_BYTES
              /\ storage' = Append(storage, content)
              /\ documents' = Append(documents,
                                     NewDocument(user_id, "upload", FileType(ext), path))
              /\ jobs' = Append(jobs, NewJob(user_id, doc_id, "upload"))
              /\ apiEnqueued' = Append(apiEnqueued, 0)
              /\ req' = [pc |-> "committed", caller |-> user_id, job_id |-> job_id,
                         document_id |-> doc_id]
              /\ resp' = NoResp
        /\ UNCHANGED <<chunks, index, queue, delivered, redeliveries, w>>
        /\ UNCHANGED aux

\* POST scrape up to db.commit().
ScrapeUrl(ext_id) ==
    LET user_id == UserId(users, ext_id)
        doc_id  == Len(documents) + 1
        job_id  == Len(jobs) + 1
    IN  /\ req.pc = "idle"
        /\ Len(jobs) < MaxDocs
        /\ users' = UsersAfter(users, ext_id)
        /\ \/ \* db.commit() raises: rollback
              /\ resp' = Response("scrape", user_id, 500)
              /\ UNCHANGED <<documents, jobs, apiEnqueued, req>>
           \/ /\ documents' = Append(documents, NewDocument(user_id, "scrape", "html", 0))
              /\ jobs' = Append(jobs, NewJob(user_id, doc_id, "scrape"))
              /\ apiEnqueued' = Append(apiEnqueued, 0)
              /\ req' = [pc |-> "committed", caller |-> user_id, job_id |-> job_id,
                         document_id |-> doc_id]
              /\ resp' = NoResp
        /\ UNCHANGED <<chunks, storage, index, queue, delivered, redeliveries, w>>
        /\ UNCHANGED aux

\* A task message: the job, the retry count of its request and the countdown
\* (seconds) it was sent with.
Task(job_id, retries, countdown) ==
    [job_id |-> job_id, retries |-> retries, countdown |-> countdown]

\* process_doc.delay(job.id) and the 201 response of upload and scrape.

\* Enqueue answering 201 whether or not the task was sent.
EnqueueUnchecked ==
    /\ req.pc = "committed"
    /\ req' = NoReq
    /\ resp' = [Response(documents[req.document_id].source_type, req.caller, 201)
                  EXCEPT !.jobId = req.job_id, !.documentId = req.document_id,
                         !.status = "queued"]
    /\ \/ /\ queue' = queue (+) SetToBag({Task(req.job_id, 0, 0)})
          /\ apiEnqueued' = [apiEnqueued EXCEPT ![req.job_id] = @ + 1]
       \/ UNCHANGED <<queue, apiEnqueued>>
    /\ UNCHANGED <<users, documents, jobs, chunks, storage, index, delivered,
                   redeliveries, w>>
    /\ UNCHANGED aux

Enqueue ==
    /\ req.pc = "committed"
    /\ req' = NoReq
    /\ \/ /\ queue' = queue (+) SetToBag({Task(req.job_id, 0, 0)})
          /\ apiEnqueued' = [apiEnqueued EXCEPT ![req.job_id] = @ + 1]
          /\ resp' = [Response(documents[req.document_id].source_type, req.caller, 201)
                        EXCEPT !.jobId = req.job_id, !.documentId = req.document_id,
                               !.status = "queued"]
       \/ \* delay raises (broker unreachable): rollback of nothing, 500
          /\ resp' = Response(documents[req.document_id].source_type, req.caller, 500)
          /\ UNCHANGED <<queue, apiEnqueued>>
    /\ UNCHANGED <<users, documents, jobs, chunks, storage, index, delivered,
                   redeliveries, w>>
    /\ UNCHANGED aux

\* GET upload/status?jobId=

\* GetUploadStatus without the ownership check.
GetUploadStatusAnyone(ext_id, job_id) ==
    /\ IF job_id \notin 1..Len(jobs)
       THEN /\ resp' = [Response("status", 0, 404) EXCEPT !.arg = job_id]
            /\ UNCHANGED users
       ELSE LET user_id == UserId(users, ext_id)
                job     == jobs[job_id]
            IN  /\ users' = UsersAfter(users, ext_id)
                /\ resp' = [Response("status", user_id, 200)
                              EXCEPT !.arg = job_id,
                                     !.jobId = job_id, !.status = job.status,
                                     !.progress = job.progress,
                                     !.errorMessage = job.error_message]
    /\ UNCHANGED <<documents, jobs, chunks, storage, index, queue, delivered,
                   redeliveries, w, req, apiEnqueued>>
    /\ UNCHANGED aux

GetUploadStatus(ext_id, job_id) ==
    /\ IF job_id \notin 1..Len(jobs)
       THEN /\ resp' = [Response("status", 0, 404) EXCEPT !.arg = job_id]
            /\ UNCHANGED users
       ELSE LET user_id == UserId(users, ext_id)
                job     == jobs[job_id]
            IN  /\ users' = UsersAfter(users, ext_id)
                /\ resp' = IF job.user_id # user_id
                           THEN [Response("status", user_id, 403) EXCEPT !.arg = job_id]
                           ELSE [Response("status", user_id, 200)
                                   EXCEPT !.arg = job_id,
                                          !.jobId = job_id, !.status = job.status,
                                          !.progress = job.progress,
                                          !.errorMessage = job.error_message]
    /\ UNCHANGED <<documents, jobs, chunks, storage, index, queue, delivered,
                   redeliveries, w, req, apiEnqueued>>
    /\ UNCHANGED aux


(***************************************************************************)
(* The worker: process_doc (src/src/tasks/worker_upsert_pinecone.py).      *)
(* The worker's position w.pc is the last commit it made; every action     *)
(* runs the code from one commit (or external call) to the next.           *)
(***************************************************************************)
RECURSIVE Flatten(_)
Flatten(pages) == IF pages = << >> THEN << >> ELSE Head(pages) \o Flatten(Tail(pages))

\* db.commit() of a new value of job.progress, recorded in the execution's log.
CommitProgress(p, pc) ==
    /\ jobs' = [jobs EXCEPT ![w.job_id].progress = p]
    /\ w' = [w EXCEPT !.pc = pc, !.log = Append(@, p)]

\* The worker after an execution ended: what it returned or raised, kept
\* until the next task is received.
Ended(outcome, raised) ==
    [w EXCEPT !.pc = "idle", !.retries = 0, !.batches = 0,
              !.outcome = outcome, !.raised = raised]

\* The except clause: the job and the document are marked failed, two
\* commits, and the exception is raised again.
Fail(msg) ==
    /\ jobs' = [jobs EXCEPT ![w.job_id].status = "failed",
                            ![w.job_id].error_message = msg]
    /\ documents' = [documents EXCEPT ![jobs[w.job_id].document_id].status = "failed"]
    /\ w' = Ended("raised", msg)

\* The except clause after a database call of this session raised: the
\* session is never rolled back in process_doc, so the handler's own
\* db.commit() raises and nothing of this transaction is stored.
SessionError == "Session's transaction has been rolled back"

FailSession ==
    /\ w' = Ended("raised", SessionError)
    /\ UNCHANGED <<jobs, documents>>

\* Lines 29-43: a task message is received, the job is set to processing.
Start ==
    \E task \in BagToSet(queue) :
            /\ w.pc = "idle"
            /\ queue' = queue (-) SetToBag({task})
            /\ delivered' = delivered \cup {task}
            /\ task.job_id \in 1..Len(jobs)
            /\ jobs[task.job_id].document_id \in 1..Len(documents)
            /\ jobs' = [jobs EXCEPT ![task.job_id].status = "processing",
                                    ![task.job_id].progress = 10]
            /\ w' = [Idle EXCEPT !.pc = "started", !.job_id = task.job_id,
                                 !.retries = task.retries, !.log = <<10>>]
            /\ UNCHANGED <<users, documents, chunks, storage, index, redeliveries,
                           req, apiEnqueued>>
            /\ resp' = NoResp
            /\ UNCHANGED aux

\* Lines 48-54: the stored file is downloaded.
Download ==
    /\ w.pc = "started"
    /\ jobs[w.job_id].job_type \in {"upload", "file"}
    /\ \/ Fail("download failed")
       \/ /\ CommitProgress(20, "downloaded")
          /\ UNCHANGED documents
    /\ UNCHANGED <<users, chunks, storage, index, queue, delivered, redeliveries,
                   req, apiEnqueued>>
    /\ resp' = NoResp
    /\ UNCHANGED aux

\* Lines 57-66: the extractor of the document's file type.
\* The dispatch with every unknown type read as plain text.
ExtractorAnyText(file_type) ==
    IF file_type = "pdf" THEN "pdf"
    ELSE IF file_type \in {"html", "htm"} THEN "html"
    ELSE "txt"

Extractor(file_type) ==
    IF file_type = "pdf" THEN "pdf"
    ELSE IF file_type \in {"html", "htm"} THEN "html"
    ELSE IF file_type \in {"txt", "text"} THEN "txt"
    ELSE "unsupported"

Extract ==
    LET doc     == documents[jobs[w.job_id].document_id]
        content == storage[doc.storage_path]
    IN  /\ w.pc = "downloaded"
        /\ CASE Extractor(doc.file_type) = "unsupported" ->
                    Fail("Unsupported file type: " \o doc.file_type)
             [] Extractor(doc.file_type) = "txt" ->
                    /\ w' = [w EXCEPT !.pc = "extracted", !.pages = <<Flatten(content)>>]
                    /\ UNCHANGED <<jobs, documents>>
             [] OTHER ->
                    \/ Fail("extraction failed")
                    \/ /\ w' = [w EXCEPT !.pc = "extracted", !.pages = content]
                       /\ UNCHANGED <<jobs, documents>>
        /\ UNCHANGED <<users, chunks, storage, index, queue, delivered, redeliveries,
                       req, apiEnqueued>>
        /\ resp' = NoResp
        /\ UNCHANGED aux

\* Lines 68-71: a scrape job commits progress 15 before fetching.
ScrapeBegin ==
    /\ w.pc = "started"
    /\ jobs[w.job_id].job_type \in {"scrape", "url"}
    /\ CommitProgress(15, "scraping")
    /\ UNCHANGED <<users, documents, chunks, storage, index, queue, delivered,
                   redeliveries, req, apiEnqueued>>
    /\ resp' = NoResp
    /\ UNCHANGED aux

\* Lines 73-80: the URL is fetched and extracted.
ScrapeFetch ==
    /\ w.pc = "scraping"
    /\ \/ Fail("fetch failed")
       \/ \E pages \in ScrapedPages :
            /\ jobs' = [jobs EXCEPT ![w.job_id].progress = 30]
            /\ w' = [w EXCEPT !.pc = "extracted", !.pages = pages,
                              !.log = Append(@, 30)]
            /\ UNCHANGED documents
    /\ UNCHANGED <<users, chunks, storage, index, queue, delivered, redeliveries,
                   req, apiEnqueued>>
    /\ resp' = NoResp
    /\ UNCHANGED aux

\* Lines 85-86: the chunks of the extracted pages.
Chunks(pages) == chunk_pages(pages, CHUNK_SIZE, CHUNK_OVERLAP)

\* Lines 84-89.
ChunkStep ==
    /\ w.pc = "extracted"
    /\ CommitProgress(50, "chunked")
    /\ UNCHANGED <<users, documents, chunks, storage, index, queue, delivered,
                   redeliveries, req, apiEnqueued>>
    /\ resp' = NoResp
    /\ UNCHANGED aux

\* Lines 91-133: no chunks is a declared failure; otherwise the records are
\* built and progress 60 is committed.

\* Build without the check for an empty chunk list.
BuildUnchecked ==
    /\ w.pc = "chunked"
    /\ CommitProgress(60, "built")
    /\ UNCHANGED <<users, documents, chunks, storage, index, queue, delivered,
                   redeliveries, req, apiEnqueued>>
    /\ resp' = NoResp
    /\ UNCHANGED aux

Build ==
    /\ w.pc = "chunked"
    /\ IF Chunks(w.pages) = << >>
       THEN /\ jobs' = [jobs EXCEPT
                          ![w.job_id].status = "failed",
                          ![w.job_id].error_message = "No text chunks extracted from document"]
            /\ documents' = [documents EXCEPT
                               ![jobs[w.job_id].document_id].status = "failed"]
            /\ w' = Ended("failed", None)
       ELSE /\ CommitProgress(60, "built")
            /\ UNCHANGED documents
    /\ UNCHANGED <<users, chunks, storage, index, queue, delivered, redeliveries,
                   req, apiEnqueued>>
    /\ resp' = NoResp
    /\ UNCHANGED aux


\* Line 104: f"{document.id}::{chunk['chunk_index']}"
VectorId(document_id, chunk_index) == [doc |-> document_id, sep |-> "::", idx |-> chunk_index]

NoId == [doc |-> 0, sep |-> "", idx |-> 0]

\* Lines 107-117: the record sent to the vector index for a chunk.
Record(document_id, user_id, chunk) ==
    [id |-> VectorId(document_id, chunk.chunk_index), doc_id |-> document_id,
     user_id |-> user_id]

\* Lines 121-129: the Chunk row of a chunk.
ChunkRow(document_id, chunk) ==
    [document_id |-> document_id, chunk_index |-> chunk.chunk_index,
     content |-> chunk.text, page_number |-> chunk.page,
     pinecone_id |-> VectorId(document_id, chunk.chunk_index)]

\* The namespace the worker upserts into (line 137).
WorkerNamespace(user_id) == user_id

\* PineconeClient._upsert_with_retry: a vector upserted under a namespace;
\* a missing namespace (0) is the index's default namespace.
DefaultNamespace == 0

Upserted(namespace, records) ==
    {[ns |-> IF namespace # 0 THEN namespace ELSE DefaultNamespace,
      id |-> r.id, doc_id |-> r.doc_id, user_id |-> r.user_id] : r \in records}

\* An upsert replaces the vector of the same id in the same namespace.
IndexAfter(idx, vectors) ==
    {v \in idx : ~ \E n \in vectors : n.ns = v.ns /\ n.id = v.id} \cup vectors

\* _chunk_list: the number of batches of n records.
NumBatches(n, size) == (n + size - 1) \div size

\* The k-th batch (from 0) of a list.
Batch(lst, k, size) == SubSeq(lst, k * size + 1, Min((k + 1) * size, Len(lst)))

\* The same countdown for every retry.
CountdownFixed(retries) == 60

\* Line 150: the countdown of a retry.
Countdown(retries) == 60 * (2 ^ retries)

IsTransient(msg) == msg = "429 Too Many Requests"

\* Lines 139-153 with PineconeClient.upsert_texts: one batch is embedded
\* and upserted, or the call raises; a transient error is handed to
\* self.retry, which sends the task again and raises Retry unless the
\* retries are used up, and every exception reaches the except clause.
UpsertBatch ==
    LET job     == jobs[w.job_id]
        cs      == Chunks(w.pages)
        batch   == Batch(cs, w.batches, BATCH_SIZE)
        records == {Record(job.document_id, job.user_id, batch[k]) : k \in 1..Len(batch)}
    IN  /\ w.pc = "built"
        /\ w.batches < NumBatches(Len(cs), BATCH_SIZE)
        /\ \/ /\ index' = IndexAfter(index, Upserted(WorkerNamespace(job.user_id), records))
              /\ w' = [w EXCEPT !.batches = @ + 1, !.calls = @ + 1]
              /\ UNCHANGED <<jobs, documents, queue>>
           \/ \E msg \in UpsertErrors :
                /\ IF IsTransient(msg) /\ w.retries < MAX_RETRIES
                   THEN /\ queue' = queue (+) SetToBag({Task(w.job_id, w.retries + 1,
                                                                 Countdown(w.retries))})
                        /\ Fail("Retry in " \o ToString(Countdown(w.retries)) \o "s: " \o msg)
                   ELSE /\ Fail(msg)
                        /\ UNCHANGED queue
                /\ UNCHANGED index
        /\ UNCHANGED <<users, chunks, storage, delivered, redeliveries, req,
                       apiEnqueued>>
        /\ resp' = NoResp
        /\ UNCHANGED aux

\* Lines 155-156.
Upserts ==
    /\ w.pc = "built"
    /\ w.batches = NumBatches(Len(Chunks(w.pages)), BATCH_SIZE)
    /\ CommitProgress(90, "upserted")
    /\ UNCHANGED <<users, documents, chunks, storage, index, queue, delivered,
                   redeliveries, req, apiEnqueued>>
    /\ resp' = NoResp
    /\ UNCHANGED aux

\* Lines 158-175: the Chunk rows are saved and the document and the job
\* are completed in one commit; bulk_save_objects or the commit may raise.

\* Persist without the final progress and status of the job.
PersistNoJobUpdate ==
    LET job  == jobs[w.job_id]
        cs   == Chunks(w.pages)
        rows == [k \in 1..Len(cs) |-> ChunkRow(job.document_id, cs[k])]
    IN  /\ w.pc = "upserted"
        /\ \/ /\ chunks' = chunks \o rows
              /\ documents' = [documents EXCEPT
                                 ![job.document_id].chunk_count = Len(cs),
                                 ![job.document_id].status = "completed"]
              /\ jobs' = jobs
              /\ w' = [Ended("completed", None) EXCEPT !.rows = @ + Len(rows)]
           \/ /\ FailSession
              /\ UNCHANGED chunks
        /\ UNCHANGED <<users, storage, index, queue, delivered, redeliveries, req, apiEnqueued>>
        /\ resp' = NoResp
        /\ UNCHANGED aux

Persist ==
    LET job  == jobs[w.job_id]
        cs   == Chunks(w.pages)
        rows == [k \in 1..Len(cs) |-> ChunkRow(job.document_id, cs[k])]
    IN  /\ w.pc = "upserted"
        /\ \/ /\ chunks' = chunks \o rows
              /\ documents' = [documents EXCEPT
                                 ![job.document_id].chunk_count = Len(cs),
                                 ![job.document_id].status = "completed"]
              /\ jobs' = [jobs EXCEPT ![w.job_id].progress = 100,
                                      ![w.job_id].status = "completed"]
              /\ w' = [Ended("completed", None) EXCEPT !.log = Append(@, 100),
                                                        !.rows = @ + Len(rows)]
           \/ /\ FailSession
              /\ UNCHANGED chunks
        /\ UNCHANGED <<users, storage, index, queue, delivered, redeliveries, req, apiEnqueued>>
        /\ resp' = NoResp
        /\ UNCHANGED aux

\* The broker (Redis, at-least-once delivery) hands a message a worker has
\* already received to a worker again.  The worker takes its next message
\* when it is idle, so only then does it matter that the message is back.
Redeliver ==
    \E task \in delivered :
        /\ w.pc = "idle"
        /\ redeliveries < MaxRedeliver
        /\ redeliveries' = redeliveries + 1
        /\ queue' = queue (+) SetToBag({task})
        /\ UNCHANGED <<users, documents, jobs, chunks, storage, index, delivered, w,
                       req, apiEnqueued>>
        /\ resp' = NoResp
        /\ UNCHANGED aux

(***************************************************************************)
(* Admin API: POST admin/reindex (src/src/admin/reindex.py).               *)
(***************************************************************************)
\* Line 65: chunk.pinecone_id or f"{chunk.document_id}_{chunk.chunk_index}"
ReindexId(chunk) ==
    IF chunk.pinecone_id # NoId THEN chunk.pinecone_id
    ELSE [doc |-> chunk.document_id, sep |-> "_", idx |-> chunk.chunk_index]

\* Line 78: pinecone.upsert_vectors(vectors) names no namespace.
ReindexNamespace(user_id) == DefaultNamespace

\* document_id 0 stands for a request without documentId.
Reindex(document_id) ==
    /\ IF document_id # 0 /\ document_id \notin 1..Len(documents)
       THEN /\ resp' = [Response("reindex", 0, 404) EXCEPT !.arg = document_id]
            /\ UNCHANGED index
       ELSE LET sel == {k \in 1..Len(chunks) :
                          document_id = 0 \/ chunks[k].document_id = document_id}
                NsVectors(ns) ==
                    Upserted(ns, {[id |-> ReindexId(chunks[k]),
                                   doc_id |-> chunks[k].document_id,
                                   user_id |-> documents[chunks[k].document_id].user_id]
                                  : k \in {x \in sel :
                                      ReindexNamespace(documents[chunks[x].document_id].user_id) = ns}})
            IN  /\ index' = IndexAfter(index, UNION {NsVectors(ns) : ns \in 0..Len(users)})
                /\ resp' = [Response("reindex", 0, 200) EXCEPT !.arg = document_id]
    /\ UNCHANGED <<users, documents, jobs, chunks, storage, queue, delivered,
                   redeliveries, w, req, apiEnqueued>>
    /\ UNCHANGED aux

(***************************************************************************)
(* Query API: POST query (src/src/api/query.py).                           *)
(***************************************************************************)
\* The parameters of PineconeClient.query_text and the keyword arguments
\* query_rag calls it with: an argument that is no parameter is a TypeError.
QueryTextParams == {"namespace", "text", "top_k", "filter"}
QueryTextCall == {"namespace", "text", "top_k", "include_metadata", "filter_dict"}

\* The vectors a query of a namespace filtered to a user can match.
Matchable(namespace, user_id) ==
    {v \in index : v.ns = namespace /\ v.user_id = user_id}

QueryRag(ext_id) ==
    LET user_id == UserId(users, ext_id)
    IN  /\ users' = UsersAfter(users, ext_id)
        /\ IF QueryTextCall \subseteq QueryTextParams
           THEN \E matches \in SUBSET Matchable(user_id, user_id) :
                    resp' = [Response("query", user_id, 200)
                               EXCEPT !.sources = {m.doc_id : m \in matches}
                                                    \cap (1..Len(documents))]
           ELSE resp' = Response("query", user_id, 500)
        /\ UNCHANGED <<documents, jobs, chunks, storage, index, queue, delivered,
                       redeliveries, w, req, apiEnqueued>>
        /\ UNCHANGED aux

(***************************************************************************)
(* GET brain/<doc_id>/vectors: the chunks of one of the caller's documents. *)
(* The page of chunks of a 200 answer is left out of the response record.  *)
(***************************************************************************)
\* The answer with the ownership test dropped from the document query.
VectorsResponseById(docs, user_id, doc_id) ==
    IF doc_id \notin 1..Len(docs)
    THEN Response("vectors", user_id, 404)
    ELSE IF docs[doc_id].user_id # user_id
         THEN Response("vectors", user_id, 403)
         ELSE [Response("vectors", user_id, 200) EXCEPT !.documentId = doc_id]

\* The answer to user_id asking for doc_id: one query filters on id and owner.
VectorsResponse(docs, user_id, doc_id) ==
    IF \E d \in 1..Len(docs) : d = doc_id /\ docs[d].user_id = user_id
    THEN [Response("vectors", user_id, 200) EXCEPT !.documentId = doc_id]
    ELSE Response("vectors", user_id, 404)

GetDocumentVectors(ext_id, doc_id) ==
    LET user_id == UserId(users, ext_id)
    IN  /\ users' = UsersAfter(users, ext_id)
        /\ resp' = [VectorsResponse(documents, user_id, doc_id) EXCEPT !.arg = doc_id]
        /\ UNCHANGED <<documents, jobs, chunks, storage, index, queue, delivered,
                       redeliveries, w, req, apiEnqueued>>
        /\ UNCHANGED aux

Next ==
    \/ \E e \in ExtIds, f \in SampleFiles,
          size \in {MAX_UPLOAD_BYTES, MAX_UPLOAD_BYTES + 1} :
            UploadFile(e, f.ext, f.content, size)
    \/ \E e \in ExtIds : ScrapeUrl(e)
    \/ Enqueue
    \/ \E e \in ExtIds, j \in 1..(MaxDocs + 1) : GetUploadStatus(e, j)
    \/ Start
    \/ Download
    \/ Extract
    \/ ScrapeBegin
    \/ ScrapeFetch
    \/ ChunkStep
    \/ Build
    \/ UpsertBatch
    \/ Upserts
    \/ Persist
    \/ Redeliver
    \/ \E d \in 0..MaxDocs : Reindex(d)
    \/ \E e \in ExtIds : QueryRag(e)
    \/ \E e \in ExtIds, d \in 1..(MaxDocs + 1) : GetDocumentVectors(e, d)

Spec == Init /\ [][Next]_vars

\* A step of the worker process.
WorkerStep ==
    \/ Start
    \/ Download
    \/ Extract
    \/ ScrapeBegin
    \/ ScrapeFetch
    \/ ChunkStep
    \/ Build
    \/ UpsertBatch
    \/ Upserts
    \/ Persist

\* The positions of a running execution of process_doc.
Running ==
    {"started", "downloaded", "scraping", "extracted", "chunked", "built", "upserted"}

\* The broker hands every waiting task to the worker (weak fairness of
\* Start), a request goes on after its commit, and the worker goes on with
\* the task it runs: at every position of Running one step of WorkerStep is
\* enabled and only that step leaves the position, so weak fairness of the
\* step is that the worker does not stay at the position for ever.
QueueFairness ==
    /\ WF_vars(Start)
    /\ WF_vars(Enqueue)
    /\ \A pc \in Running : []<>(w.pc # pc)

\* The ingestion pipeline on its own: the two requests that create jobs,
\* the worker and the broker.
IngestNext ==
    \/ \E e \in ExtIds, f \in SampleFiles,
          size \in {MAX_UPLOAD_BYTES, MAX_UPLOAD_BYTES + 1} :
            UploadFile(e, f.ext, f.content, size)
    \/ \E e \in ExtIds : ScrapeUrl(e)
    \/ Enqueue
    \/ WorkerStep
    \/ Redeliver

FairSpec == Init /\ [][IngestNext]_vars /\ QueueFairness


(***************************************************************************)
(* get_or_create_user step by step, run by concurrent request threads: the  *)
(* lookup and the insert are separate statements on the thread's session.  *)
(***************************************************************************)
RowOf(us, ext) == CHOOSE i \in 1..Len(us) : us[i] = ext

AuthCall(t, ext) ==
    /\ auth[t].pc = "idle"
    /\ auth' = [auth EXCEPT ![t] = [NoAuth EXCEPT !.pc = "lookup", !.ext = ext]]
    /\ UNCHANGED <<users, settings, call, ret, demo>>
    /\ UNCHANGED pipeline

AuthLookup(t) ==
    /\ auth[t].pc = "lookup"
    /\ auth' = IF HasUser(users, auth[t].ext)
               THEN [auth EXCEPT ![t].pc = "done",
                                 ![t].user = RowOf(users, auth[t].ext),
                                 ![t].result = RowOf(users, auth[t].ext)]
               ELSE [auth EXCEPT ![t].pc = "insert"]
    /\ UNCHANGED <<users, settings, call, ret, demo>>
    /\ UNCHANGED pipeline

\* The insert without the unique constraint on supabase_user_id.
AuthInsertAnyway(t) ==
    /\ auth[t].pc = "insert"
    /\ users' = Append(users, auth[t].ext)
    /\ auth' = [auth EXCEPT ![t].pc = "done", ![t].user = Len(users) + 1,
                            ![t].result = Len(users) + 1]
    /\ UNCHANGED <<settings, call, ret, demo>>
    /\ UNCHANGED pipeline

\* The insert answering a taken identifier with the id of its row.
AuthInsertReturnsExisting(t) ==
    /\ auth[t].pc = "insert"
    /\ IF HasUser(users, auth[t].ext)
       THEN /\ auth' = [auth EXCEPT ![t].pc = "done",
                                    ![t].user = RowOf(users, auth[t].ext),
                                    ![t].result = RowOf(users, auth[t].ext)]
            /\ UNCHANGED users
       ELSE /\ users' = Append(users, auth[t].ext)
            /\ auth' = [auth EXCEPT ![t].pc = "done", ![t].user = Len(users) + 1,
                                    ![t].result = Len(users) + 1]
    /\ UNCHANGED <<settings, call, ret, demo>>
    /\ UNCHANGED pipeline

\* db.add(user); db.commit(): the unique constraint on supabase_user_id
\* makes the commit raise when another thread has inserted the row meanwhile.
AuthInsert(t) ==
    /\ auth[t].pc = "insert"
    /\ IF HasUser(users, auth[t].ext)
       THEN /\ auth' = [auth EXCEPT ![t].pc = "raised"]
            /\ UNCHANGED users
       ELSE /\ users' = Append(users, auth[t].ext)
            /\ auth' = [auth EXCEPT ![t].pc = "done", ![t].user = Len(users) + 1,
                                    ![t].result = Len(users) + 1]
    /\ UNCHANGED <<settings, call, ret, demo>>
    /\ UNCHANGED pipeline

AuthReturn(t) ==
    /\ auth[t].pc \in {"done", "raised"}
    /\ auth' = [auth EXCEPT ![t] = NoAuth]
    /\ UNCHANGED <<users, settings, call, ret, demo>>
    /\ UNCHANGED pipeline

UserNext ==
    \/ \E t \in Threads, e \in ExtIds : AuthCall(t, e)
    \/ \E t \in Threads : AuthLookup(t)
    \/ \E t \in Threads : AuthInsert(t)
    \/ \E t \in Threads : AuthReturn(t)

UserSpec == Init /\ [][UserNext]_vars

(***************************************************************************)
(* Library functions evaluated on their own: call holds the function, its  *)
(* arguments and, for a loop, its local variables; ret what it returned.   *)
(***************************************************************************)
Returned(value) == [done |-> TRUE, raised |-> FALSE, value |-> value]
Raised(error) == [done |-> TRUE, raised |-> TRUE, value |-> error]

\* Strings over a letter and a line break, the shortest first.
RECURSIVE TextsOfLen(_)
TextsOfLen(n) ==
    IF n = 0 THEN {<< >>}
    ELSE {Append(t, c) : t \in TextsOfLen(n - 1), c \in {"a", NL}}

Texts == UNION {TextsOfLen(n) : n \in 0..MaxTextLen}

\* TextChunker(chunk_size, chunk_overlap) with 0 < overlap < chunk_size.
ChunkerConfigs ==
    {cfg \in (2..MaxChunkSize) \X (1..MaxChunkSize) : cfg[2] < cfg[1]}

ChunkTextCalls ==
    {[fn |-> "chunk_text", text |-> t, chunk_size |-> cfg[1], chunk_overlap |-> cfg[2],
      start |-> 0, chunks |-> << >>] : t \in Texts, cfg \in ChunkerConfigs}

\* chunk_text, lines 20-21: no text, no chunks.
ChunkTextEmpty ==
    /\ call.fn = "chunk_text" /\ ~ret.done
    /\ call.text = << >>
    /\ ret' = Returned(<< >>)
    /\ UNCHANGED <<users, auth, settings, call, demo>>
    /\ UNCHANGED pipeline

\* chunk_text, lines 27-50: one iteration of the while loop.
ChunkTextIter ==
    /\ call.fn = "chunk_text" /\ ~ret.done
    /\ call.text # << >>
    /\ call.start < Len(call.text)
    /\ Len(call.chunks) < MaxChunks
    /\ LET end == WindowEnd(call.text, call.start, call.chunk_size)
       IN  call' = [call EXCEPT
                      !.chunks = Append(@, [content |-> Strip(Slice(call.text, call.start, end)),
                                            start_char |-> call.start,
                                            end_char |-> end]),
                      !.start = IF end < Len(call.text)
                                THEN end - call.chunk_overlap ELSE end]
    /\ UNCHANGED <<users, auth, settings, ret, demo>>
    /\ UNCHANGED pipeline

\* chunk_text, line 52: the loop is over.
ChunkTextReturn ==
    /\ call.fn = "chunk_text" /\ ~ret.done
    /\ call.text # << >>
    /\ call.start >= Len(call.text)
    /\ ret' = Returned(call.chunks)
    /\ UNCHANGED <<users, auth, settings, call, demo>>
    /\ UNCHANGED pipeline

\* Pages of at most MaxPageLen characters over one letter and a line break.
RECURSIVE PageTexts(_, _)
PageTexts(letter, n) ==
    IF n = 0 THEN {<< >>}
    ELSE PageTexts(letter, n - 1)
         \cup {Append(t, c) : t \in {u \in PageTexts(letter, n - 1) : Len(u) = n - 1},
                              c \in {letter, NL}}

\* The letter each page is written in, so that content shows its page.
PageLetters == <<"a", "b">>

\* Lists of no page, one page and two pages.
PageLists ==
    {<< >>}
    \cup {<<t>> : t \in PageTexts(PageLetters[1], MaxPageLen)}
    \cup {<<t, u>> : t \in PageTexts(PageLetters[1], MaxPageLen),
                     u \in PageTexts(PageLetters[2], MaxPageLen)}

\* The max_chars and overlap arguments; 0 stands for an argument left out.
PageConfigs == {<<0, 0>>, <<2, 1>>, <<3, 1>>, <<3, 2>>, <<2, 2>>}

\* chunk_pages, lines 66-70: the arguments after their defaults; the
\* position is the page of the for loop and the start of the while loop.
ChunkPagesCalls ==
    {[fn |-> "chunk_pages", pages |-> ps,
      max_chars |-> IF cfg[1] = 0 THEN CHUNK_SIZE ELSE cfg[1],
      overlap |-> IF cfg[2] = 0 THEN CHUNK_OVERLAP ELSE cfg[2],
      page_idx |-> 0, start |-> 0, chunks |-> << >>] :
        ps \in PageLists, cfg \in PageConfigs}

\* Every page is skipped, the blank ones included.
SkipPageNever(page_text) == FALSE

\* chunk_pages, line 73: a page without text is skipped.
SkipPage(page_text) == Strip(page_text) = << >>

\* chunk_pages, lines 72-74: the for loop skips a blank page.
ChunkPagesSkip ==
    /\ call.fn = "chunk_pages" /\ ~ret.done
    /\ call.page_idx < Len(call.pages)
    /\ call.start = 0
    /\ SkipPage(call.pages[call.page_idx + 1])
    /\ call' = [call EXCEPT !.page_idx = @ + 1]
    /\ UNCHANGED <<users, auth, settings, ret, demo>>
    /\ UNCHANGED pipeline

\* chunk_pages, lines 80-105: one iteration of the while loop of a page.
ChunkPagesIter ==
    /\ call.fn = "chunk_pages" /\ ~ret.done
    /\ call.page_idx < Len(call.pages)
    /\ Len(call.chunks) < MaxChunks
    /\ LET page_text == call.pages[call.page_idx + 1]
           end       == WindowEnd(page_text, call.start, call.max_chars)
           body      == Strip(Slice(page_text, call.start, end))
       IN  /\ ~SkipPage(page_text)
           /\ call.start < Len(page_text)
           /\ call' = [call EXCEPT
                         !.chunks = Append(@, [text |-> body,
                                               page |-> call.page_idx + 1,
                                               chunk_index |-> Len(call.chunks),
                                               start_char |-> call.start,
                                               end_char |-> end,
                                               preview |-> Slice(body, 0, Min(200, Len(body)))]),
                         !.start = IF end < Len(page_text)
                                   THEN end - call.overlap ELSE end]
    /\ UNCHANGED <<users, auth, settings, ret, demo>>
    /\ UNCHANGED pipeline

\* chunk_pages, lines 72 and 80: the while loop is over, the next page.
ChunkPagesNextPage ==
    /\ call.fn = "chunk_pages" /\ ~ret.done
    /\ call.page_idx < Len(call.pages)
    /\ ~SkipPage(call.pages[call.page_idx + 1])
    /\ call.start >= Len(call.pages[call.page_idx + 1])
    /\ call' = [call EXCEPT !.page_idx = @ + 1, !.start = 0]
    /\ UNCHANGED <<users, auth, settings, ret, demo>>
    /\ UNCHANGED pipeline

\* chunk_pages, line 107: the for loop is over.
ChunkPagesReturn ==
    /\ call.fn = "chunk_pages" /\ ~ret.done
    /\ call.page_idx >= Len(call.pages)
    /\ ret' = Returned(call.chunks)
    /\ UNCHANGED <<users, auth, settings, call, demo>>
    /\ UNCHANGED pipeline

(***************************************************************************)
(* ingest/extractor.py.  The bytes of a PDF are what the two readers make  *)
(* of them: whether each can open them, the text of each page, and the     *)
(* page (0: none) at which PyMuPDF's get_text gives up.                    *)
(***************************************************************************)
PdfPageTexts == {<< >>, <<NL>>, <<"a">>, <<NL, "a", "b", NL>>}

PdfPageLists ==
    {<< >>} \cup {<<t>> : t \in PdfPageTexts}
            \cup {<<t, u>> : t \in PdfPageTexts, u \in PdfPageTexts}

PdfSamples ==
    {[fitz_opens |-> fo, fitz_fails_at |-> fa, plumber_opens |-> po, pages |-> ps] :
        fo \in BOOLEAN, po \in BOOLEAN, ps \in PdfPageLists, fa \in 0..2}

\* The stripped texts of the pages that have text, in page order.
RECURSIVE TextPages(_)
TextPages(pages) ==
    IF pages = << >> THEN << >>
    ELSE (IF Strip(Head(pages)) = << >> THEN << >> ELSE <<Strip(Head(pages))>>)
         \o TextPages(Tail(pages))

\* extract_text_from_pdf_bytes, lines 26-54.  PyMuPDF runs inside try and
\* its error is dropped, the pages it appended before the error are kept;
\* pdfplumber runs outside any try.
extract_text_from_pdf_bytes(has_fitz, pdf) ==
    LET failed_page == IF pdf.fitz_fails_at \in 1..Len(pdf.pages)
                       THEN pdf.fitz_fails_at ELSE 0
        fitz_raised == ~pdf.fitz_opens \/ failed_page > 0
        fitz_pages  == IF ~has_fitz \/ ~pdf.fitz_opens THEN << >>
                       ELSE IF failed_page > 0
                            THEN TextPages(SubSeq(pdf.pages, 1, failed_page - 1))
                            ELSE TextPages(pdf.pages)
        pages       == fitz_pages \o TextPages(pdf.pages)
    IN  IF has_fitz /\ ~fitz_raised /\ fitz_pages # << >> THEN Returned(fitz_pages)
        ELSE IF ~pdf.plumber_opens THEN Raised("PDFSyntaxError")
        ELSE IF pages = << >> THEN Returned(<< << >> >>)
        ELSE Returned(pages)

ExtractPdfCalls ==
    {[fn |-> "extract_text_from_pdf_bytes", HAS_FITZ |-> h, pdf_bytes |-> pdf] :
        h \in BOOLEAN, pdf \in PdfSamples}

ExtractPdf ==
    /\ call.fn = "extract_text_from_pdf_bytes" /\ ~ret.done
    /\ ret' = extract_text_from_pdf_bytes(call.HAS_FITZ, call.pdf_bytes)
    /\ UNCHANGED <<users, auth, settings, call, demo>>
    /\ UNCHANGED pipeline

(***************************************************************************)
(* security/crypto.py.  A Fernet token is a string of symbols: the version *)
(* prefix, the initialisation vector, the signature made with the secret   *)
(* and the enciphered characters.                                          *)
(***************************************************************************)
Rep(c, n) == [i \in 1..n |-> c]

RECURSIVE Join(_)
Join(seq) == IF seq = << >> THEN "" ELSE Head(seq) \o Join(Tail(seq))

\* len(base64.urlsafe_b64decode(s)), -1 when the padding is incorrect.
B64DecodedLen(s) ==
    LET data == Cardinality({i \in 1..Len(s) : s[i] # "="})
    IN  IF Len(s) % 4 # 0 THEN -1 ELSE (6 * data) \div 8

\* get_cipher, lines 9-19: the secret of the cipher made from MASTER_KEY.
get_cipher(master) ==
    IF master = << >> THEN Raised("MASTER_KEY not configured")
    ELSE IF Len(master) # FERNET_KEY_LEN
         THEN Returned(IF Len(master) >= KEY_BYTES
                       THEN SubSeq(master, 1, KEY_BYTES)
                       ELSE master \o Rep("0", KEY_BYTES - Len(master)))
         ELSE IF B64DecodedLen(master) = KEY_BYTES
              THEN Returned(master)
              ELSE Raised("Fernet key must be 32 url-safe base64-encoded bytes.")

PlainChars == {"a", "b"}
Encipher(c) == "#" \o c
Decipher(x) == CHOOSE c \in PlainChars : Encipher(c) = x
Signature(secret) == "hmac:" \o Join(secret)
IVs == {"iv1", "iv2"}

FernetEncrypt(secret, data, iv) ==
    <<"gAAAAA", iv, Signature(secret)>> \o [i \in 1..Len(data) |-> Encipher(data[i])]

FernetDecrypt(secret, token) ==
    IF /\ Len(token) >= 3
       /\ token[1] = "gAAAAA"
       /\ token[3] = Signature(secret)
       /\ \A i \in 4..Len(token) : \E c \in PlainChars : Encipher(c) = token[i]
    THEN Returned([i \in 1..(Len(token) - 3) |-> Decipher(token[i + 3])])
    ELSE Raised("InvalidToken")

\* encrypt_api_key handing the key back as it is.
encrypt_api_key_plain(master, api_key, iv) ==
    IF api_key = << >> THEN Returned(<< >>)
    ELSE Returned(api_key)

encrypt_api_key(master, api_key, iv) ==
    IF api_key = << >> THEN Returned(<< >>)
    ELSE LET cipher == get_cipher(master)
         IN  IF cipher.raised THEN cipher
             ELSE Returned(FernetEncrypt(cipher.value, api_key, iv))

decrypt_api_key(master, encrypted_key) ==
    IF encrypted_key = << >> THEN Returned(<< >>)
    ELSE LET cipher == get_cipher(master)
         IN  IF cipher.raised THEN cipher
             ELSE FernetDecrypt(cipher.value, encrypted_key)

\* MASTER_KEY values: not configured, shorter and longer than a Fernet key,
\* a Fernet key, and 44 characters that are no Fernet key.
MasterKeys ==
    {<< >>, Rep("k", 5), Rep("k", FERNET_KEY_LEN - 4),
     Rep("A", FERNET_KEY_LEN - 1) \o <<"=">>, Rep("k", FERNET_KEY_LEN)}

ApiKeys == {<< >>, <<"a">>, <<"a", "b">>, <<"b", "b", "a">>}

CryptoCalls ==
    {[fn |-> "encrypt_api_key", master |-> m, api_key |-> k] :
        m \in MasterKeys, k \in ApiKeys}

CryptoEncrypt ==
    /\ call.fn = "encrypt_api_key" /\ ~ret.done
    /\ \E iv \in IVs : ret' = encrypt_api_key(call.master, call.api_key, iv)
    /\ UNCHANGED <<users, auth, settings, call, demo>>
    /\ UNCHANGED pipeline

\* The token is handed back to decrypt_api_key.
CryptoDecrypt ==
    /\ call.fn = "encrypt_api_key" /\ ret.done /\ ~ret.raised
    /\ call' = [fn |-> "decrypt_api_key", master |-> call.master,
                encrypted_key |-> ret.value, api_key |-> call.api_key]
    /\ ret' = decrypt_api_key(call.master, ret.value)
    /\ UNCHANGED <<users, auth, settings, demo>>
    /\ UNCHANGED pipeline

(***************************************************************************)
(* api/brain.py: the pagination of GET brain.  A query-string argument is  *)
(* a string of characters; the query string holds any subset of limit and  *)
(* offset.                                                                 *)
(***************************************************************************)
DEFAULT_LIMIT == 20
MAX_LIMIT == 200

Max(a, b) == IF a > b THEN a ELSE b

Digits == <<"0", "1", "2", "3", "4", "5", "6", "7", "8", "9">>
IsDigit(c) == \E d \in 1..10 : Digits[d] = c
DigitValue(c) == (CHOOSE d \in 1..10 : Digits[d] = c) - 1

\* The number a non-empty string of digits writes.
RECURSIVE Decimal(_)
Decimal(s) ==
    IF s = << >> THEN 0
    ELSE 10 * Decimal(SubSeq(s, 1, Len(s) - 1)) + DigitValue(s[Len(s)])

\* int(s) of a string: blanks around it dropped, an optional sign, digits.
ParseInt(s) ==
    LET t      == Strip(s)
        signed == t # << >> /\ t[1] \in {"-", "+"}
        digits == IF signed THEN Tail(t) ELSE t
    IN  IF digits # << >> /\ \A i \in 1..Len(digits) : IsDigit(digits[i])
        THEN Returned(IF signed /\ t[1] = "-" THEN 0 - Decimal(digits) ELSE Decimal(digits))
        ELSE Raised("ValueError")

\* int(request.args.get(name, default)) inside try, the default on error.
IntArg(args, name, default) ==
    IF name \notin DOMAIN args THEN default
    ELSE IF ParseInt(args[name]).raised THEN default
    ELSE ParseInt(args[name]).value

\* The limit taken as parsed, without the clamp.
limit_of_unclamped(args) == IntArg(args, "limit", DEFAULT_LIMIT)

\* _parse_pagination_args, lines 29-33.
limit_of(args) == Max(1, Min(IntArg(args, "limit", DEFAULT_LIMIT), MAX_LIMIT))

\* _parse_pagination_args, lines 34-38.
offset_of(args) == Max(0, IntArg(args, "offset", 0))

\* q.offset(offset).limit(limit).all() over the rows of the query.
OffsetLimit(rows, offset, limit) ==
    SubSeq(rows, offset + 1, Min(offset + limit, Len(rows)))

\* filter(Document.user_id == user_id): the rows of one user, in order.
RECURSIVE DocumentsOf(_, _)
DocumentsOf(rows, user_id) ==
    IF rows = << >> THEN << >>
    ELSE (IF Head(rows).user_id = user_id THEN <<Head(rows)>> ELSE << >>)
         \o DocumentsOf(Tail(rows), user_id)

\* get_brain, lines 51-84: the body of the 200 response.
get_brain(rows, user_id, args) ==
    LET q      == DocumentsOf(rows, user_id)
        limit  == limit_of(args)
        offset == offset_of(args)
    IN  [documents |-> OffsetLimit(q, offset, limit),
         totalDocuments |-> Len(q),
         limit |-> limit,
         offset |-> offset]

ArgTexts ==
    {<< >>, <<"0">>, <<"1">>, <<"2">>, <<"-", "5">>, <<" ", "3">>,
     <<"2", "0", "0">>, <<"2", "0", "1">>, <<"1", "0", "0", "0", "0">>,
     <<"a", "b", "c">>, <<"2", ".", "5">>}

OptionalArg(name) == {[f \in {} |-> << >>]} \cup {name :> t : t \in ArgTexts}

QueryStrings == {l @@ o : l \in OptionalArg("limit"), o \in OptionalArg("offset")}

\* Document tables of up to MaxBrainDocs rows of two users, newest first.
RECURSIVE DocumentRows(_)
DocumentRows(n) ==
    IF n = 0 THEN {<< >>}
    ELSE DocumentRows(n - 1)
         \cup {Append(rows, [id |-> Len(rows) + 1, user_id |-> u]) :
                 rows \in {r \in DocumentRows(n - 1) : Len(r) = n - 1}, u \in 1..2}

GetBrainCalls ==
    {[fn |-> "get_brain", rows |-> rows, user_id |-> 1, args |-> args] :
        rows \in DocumentRows(MaxBrainDocs), args \in QueryStrings}

GetBrain ==
    /\ call.fn = "get_brain" /\ ~ret.done
    /\ ret' = Returned(get_brain(call.rows, call.user_id, call.args))
    /\ UNCHANGED <<users, auth, settings, call, demo>>
    /\ UNCHANGED pipeline

(***************************************************************************)
(* backend/api/rag_router.py: format_response.  An emoji is one character, *)
(* written here by its name between colons.                                *)
(***************************************************************************)
RESPONSE_LIMIT == 400
SENTENCE_MIN == 200
HARD_CUT == 380

\* Line 16: the reply given for no response.
NO_RESPONSE ==
    <<"S", "o", "r", "r", "y", ",", " ", "I", " ", "c", "o", "u", "l", "d",
      "n", "'", "t", " ", "g", "e", "n", "e", "r", "a", "t", "e", " ", "a",
      " ", "r", "e", "s", "p", "o", "n", "s", "e", ".", " ", "P", "l", "e",
      "a", "s", "e", " ", "t", "r", "y", " ", "a", "g", "a", "i", "n", "!",
      " ", ":sweat_smile:">>

\* Lines 27-32.
redundant_starts ==
    <<
    <<"B", "a", "s", "e", "d", " ", "o", "n", " ", "t", "h", "e", " ", "p",
      "r", "o", "v", "i", "d", "e", "d", " ", "c", "o", "n", "t", "e", "x",
      "t", ",">>,
    <<"A", "c", "c", "o", "r", "d", "i", "n", "g", " ", "t", "o", " ", "t",
      "h", "e", " ", "d", "o", "c", "u", "m", "e", "n", "t", ",">>,
    <<"F", "r", "o", "m", " ", "t", "h", "e", " ", "i", "n", "f", "o", "r",
      "m", "a", "t", "i", "o", "n", " ", "p", "r", "o", "v", "i", "d", "e",
      "d", ",">>,
    <<"T", "h", "e", " ", "d", "o", "c", "u", "m", "e", "n", "t", " ", "s",
      "t", "a", "t", "e", "s", " ", "t", "h", "a", "t", ",">>
    >>

\* Line 53: the endings that need no period added.
ProperEndings ==
    {<<".">>, <<"!">>, <<"?">>, <<":sparkles:">>, <<":blush:">>, <<":smile:">>,
     <<":sweat_smile:">>, <<".", ".", ".">>}

StartsWith(s, prefix) == Len(s) >= Len(prefix) /\ SubSeq(s, 1, Len(prefix)) = prefix
EndsWith(s, suffix) ==
    Len(s) >= Len(suffix) /\ SubSeq(s, Len(s) - Len(suffix) + 1, Len(s)) = suffix

\* str.replace(pat, ''): the occurrences of pat are dropped from the left.
RECURSIVE Remove(_, _)
Remove(s, pat) ==
    IF ~ \E i \in 1..Len(s) : s[i] = pat[1] THEN s
    ELSE IF StartsWith(s, pat) THEN Remove(SubSeq(s, Len(pat) + 1, Len(s)), pat)
    ELSE <<Head(s)>> \o Remove(Tail(s), pat)

\* Lines 34-36: the for loop over redundant_starts from the k-th on.
RECURSIVE DropStarts(_, _)
DropStarts(response, k) ==
    IF k > Len(redundant_starts) THEN response
    ELSE IF StartsWith(response, redundant_starts[k])
         THEN DropStarts(Strip(Slice(response, Len(redundant_starts[k]), Len(response))),
                         k + 1)
         ELSE DropStarts(response, k + 1)

\* Lines 39-50.
Truncate(response) ==
    IF Len(response) > RESPONSE_LIMIT
    THEN LET truncated == Slice(response, 0, RESPONSE_LIMIT)
             last_sentence_end == Max(Max(RFind(truncated, <<".">>),
                                          RFind(truncated, <<"!">>)),
                                      RFind(truncated, <<"?">>))
         IN  IF last_sentence_end > SENTENCE_MIN
             THEN Slice(truncated, 0, last_sentence_end + 1)
             ELSE Slice(truncated, 0, HARD_CUT) \o <<".", ".", ".">>
    ELSE response

\* Lines 53-54.
EndSentence(response) ==
    IF \E e \in ProperEndings : EndsWith(response, e) THEN response
    ELSE response \o <<".">>

\* format_response, lines 15-56.
format_response(response) ==
    IF response = << >> THEN NO_RESPONSE
    ELSE EndSentence(Truncate(DropStarts(
            Remove(Remove(Remove(Strip(response), <<"*", "*">>), <<"#", "#", "#">>),
                   <<"#", "#">>), 1)))

\* Raw replies: two runs of letters around nothing, a sentence end or
\* markdown, and an ending.
ReplyLens == {0, 1, 199, 200, 201, 380, 399, 400, 401}

Replies ==
    {Rep("a", i) \o mid \o Rep("a", j) \o tail :
        i \in ReplyLens, j \in ReplyLens,
        mid \in {<< >>, <<".">>, <<"?", " ">>},
        tail \in {<< >>, <<"!">>, <<":sparkles:">>, <<" ">>}}
    \cup {<<"*", "*", "a", "*", "*">>, <<"#", "#", "#", "a", ".">>,
          <<"#", "#", "#", "#", "#">>, <<" ", "*", "*", " ">>}
    \cup {redundant_starts[k] \o <<" ">> \o redundant_starts[k] \o <<" ", "a">> :
            k \in 1..Len(redundant_starts)}

FormatCalls == {[fn |-> "format_response", response |-> r] : r \in Replies}

FormatResponse ==
    /\ call.fn = "format_response" /\ ~ret.done
    /\ ret' = Returned(format_response(call.response))
    /\ UNCHANGED <<users, auth, settings, call, demo>>
    /\ UNCHANGED pipeline

LibCalls == ChunkTextCalls \cup ChunkPagesCalls \cup ExtractPdfCalls \cup GetBrainCalls
            \cup FormatCalls
            \cup CryptoCalls

LibInit ==
    /\ Tables
    /\ call \in LibCalls
    /\ ret = NoRet

LibNext ==
    \/ ChunkTextEmpty
    \/ ChunkTextIter
    \/ ChunkTextReturn
    \/ ChunkPagesSkip
    \/ ChunkPagesIter
    \/ ChunkPagesNextPage
    \/ ChunkPagesReturn
    \/ ExtractPdf
    \/ GetBrain
    \/ FormatResponse
    \/ CryptoEncrypt
    \/ CryptoDecrypt

LibSpec == LibInit /\ [][LibNext]_vars

(***************************************************************************)
(* api/settings.py: the user_settings rows.  A key column holds NullText   *)
(* (SQL NULL) or a token; the other columns hold None or a text.           *)
(***************************************************************************)
NullText == <<"NULL">>

\* UserSettings(user_id=user_id) as it is inserted: the column defaults.
NewSettings(user_id) ==
    [user_id |-> user_id,
     custom_llm_api_key_encrypted |-> NullText,
     custom_embedding_api_key_encrypted |-> NullText,
     preferred_llm_provider |-> "fynorra",
     metadata |-> None]

HasSettings(rows, user_id) == \E r \in rows : r.user_id = user_id

\* The row the handler works on: the user's row, or a new one.
SettingsOf(rows, user_id) ==
    IF HasSettings(rows, user_id)
    THEN CHOOSE r \in rows : r.user_id = user_id
    ELSE NewSettings(user_id)

\* The JSON bodies of POST user/settings: any subset of the four fields.
SettingsFields ==
    [customLLMAPIKey |-> {<< >>, <<"a">>},
     customEmbeddingAPIKey |-> {<< >>, <<"b", "a">>},
     preferredLLMProvider |-> {"openai"},
     metadata |-> {"m"}]

\* A field left out of the body, or sent with one of its values.
Optional(field) ==
    {[f \in {} |-> None]} \cup {field :> v : v \in SettingsFields[field]}

SettingsRequests ==
    {l @@ e @@ p @@ m : l \in Optional("customLLMAPIKey"),
                        e \in Optional("customEmbeddingAPIKey"),
                        p \in Optional("preferredLLMProvider"),
                        m \in Optional("metadata")}

\* Lines 61-71 for one key field: the column's new value.
KeyColumn(data, field, old, master, iv) ==
    IF field \notin DOMAIN data THEN Returned(old)
    ELSE IF data[field] = << >> THEN Returned(NullText)
    ELSE encrypt_api_key(master, data[field], iv)

TextColumn(data, field, old) ==
    IF field \in DOMAIN data THEN data[field] ELSE old

\* The update starting from a fresh row instead of the stored one.
UpdatedRowFresh(row, data, master, iv1, iv2) ==
    LET llm == KeyColumn(data, "customLLMAPIKey", NullText, master, iv1)
        emb == KeyColumn(data, "customEmbeddingAPIKey", NullText, master, iv2)
    IN  IF llm.raised THEN llm
        ELSE IF emb.raised THEN emb
        ELSE Returned([user_id |-> row.user_id,
                       custom_llm_api_key_encrypted |-> llm.value,
                       custom_embedding_api_key_encrypted |-> emb.value,
                       preferred_llm_provider |->
                           TextColumn(data, "preferredLLMProvider", "fynorra"),
                       metadata |-> TextColumn(data, "metadata", None)])

\* Lines 60-77: the row after the field updates, or the error raised.
UpdatedRow(row, data, master, iv1, iv2) ==
    LET llm == KeyColumn(data, "customLLMAPIKey",
                         row.custom_llm_api_key_encrypted, master, iv1)
        emb == KeyColumn(data, "customEmbeddingAPIKey",
                         row.custom_embedding_api_key_encrypted, master, iv2)
    IN  IF llm.raised THEN llm
        ELSE IF emb.raised THEN emb
        ELSE Returned([user_id |-> row.user_id,
                       custom_llm_api_key_encrypted |-> llm.value,
                       custom_embedding_api_key_encrypted |-> emb.value,
                       preferred_llm_provider |->
                           TextColumn(data, "preferredLLMProvider",
                                      row.preferred_llm_provider),
                       metadata |-> TextColumn(data, "metadata", row.metadata)])

\* A POST user/settings request reaches the handler.
ReceiveSettings(ext_id, data) ==
    /\ call = NoCall
    /\ call' = [fn |-> "update_settings", ext_id |-> ext_id, data |-> data]
    /\ ret' = NoRet
    /\ UNCHANGED <<users, auth, settings, demo>>
    /\ UNCHANGED pipeline

\* POST user/settings; an error rolls the settings row back, not the user,
\* and is answered 500.
UpdateSettings(master, iv1, iv2) ==
    /\ call.fn = "update_settings"
    /\ LET user_id == UserId(users, call.ext_id)
           row     == SettingsOf(settings, user_id)
           updated == UpdatedRow(row, call.data, master, iv1, iv2)
       IN  /\ users' = UsersAfter(users, call.ext_id)
           /\ settings' = IF updated.raised THEN settings
                          ELSE (settings \ {row}) \cup {updated.value}
           /\ ret' = Returned(IF updated.raised THEN 500 ELSE 200)
    /\ call' = NoCall
    /\ UNCHANGED <<auth, demo>>
    /\ UNCHANGED pipeline

\* GET user/settings creates the row with its defaults when there is none.
GetSettings(ext_id) ==
    LET user_id == UserId(users, ext_id)
    IN  /\ call = NoCall
        /\ users' = UsersAfter(users, ext_id)
        /\ settings' = settings \cup {SettingsOf(settings, user_id)}
        /\ UNCHANGED <<auth, call, ret, demo>>
        /\ UNCHANGED pipeline

\* Config.MASTER_KEY of the deployment: a usable key, or one Fernet rejects.
ConfiguredKeys == {Rep("k", 5), Rep("k", FERNET_KEY_LEN)}

SettingsNext ==
    \/ \E e \in ExtIds : GetSettings(e)
    \/ \E e \in ExtIds, data \in SettingsRequests : ReceiveSettings(e, data)
    \/ \E m \in ConfiguredKeys, iv1, iv2 \in IVs : UpdateSettings(m, iv1, iv2)

SettingsSpec == Init /\ [][SettingsNext]_vars

(***************************************************************************)
(* The standalone demo (src/app.py).                                       *)
(***************************************************************************)
QUICK_DELETE_SECONDS == 30
DELETE_SECONDS == 300

DemoUnchanged ==
    /\ UNCHANGED <<users, auth, settings, call, ret>>
    /\ UNCHANGED pipeline

\* handle_upload, lines 113-117: a new session id, the upload written.
DemoSave(sid) ==
    /\ demo.pc[sid] = "none"
    /\ demo' = [demo EXCEPT !.pc[sid] = "saved", !.file[sid] = TRUE]
    /\ DemoUnchanged

\* handle_upload, lines 120-124: extract_text_from_pdf raises (the request
\* ends 500, nothing scheduled), finds no text (cleanup in 30 s, 400) or
\* finds text.
DemoExtract(sid) ==
    /\ demo.pc[sid] = "saved"
    /\ \/ demo' = [demo EXCEPT !.pc[sid] = "done",
                               !.last = [op |-> "upload", sid |-> sid, code |-> 500]]
       \/ demo' = [demo EXCEPT !.pc[sid] = "done",
                               !.delay[sid] = QUICK_DELETE_SECONDS,
                               !.last = [op |-> "upload", sid |-> sid, code |-> 400]]
       \/ demo' = [demo EXCEPT !.pc[sid] = "extracted"]
    /\ DemoUnchanged

\* handle_upload, lines 126-139: the index directory is made; building or
\* saving the store raises (500, nothing scheduled) or the cleanup is
\* scheduled in 300 s and the client redirected.
DemoBuildIndex(sid) ==
    /\ demo.pc[sid] = "extracted"
    /\ \/ demo' = [demo EXCEPT !.pc[sid] = "done", !.idx[sid] = TRUE,
                               !.last = [op |-> "upload", sid |-> sid, code |-> 500]]
       \/ demo' = [demo EXCEPT !.pc[sid] = "done", !.idx[sid] = TRUE,
                               !.delay[sid] = DELETE_SECONDS,
                               !.last = [op |-> "upload", sid |-> sid, code |-> 302]]
    /\ DemoUnchanged

\* schedule_delete._delete, lines 57-65, once its sleep is over.
DemoDelete(sid) ==
    /\ demo.delay[sid] > 0 /\ ~demo.ran[sid]
    /\ demo' = [demo EXCEPT !.file[sid] = FALSE, !.idx[sid] = FALSE, !.ran[sid] = TRUE]
    /\ DemoUnchanged

\* api_chat, lines 167-192; with an index directory the answer depends on
\* the store loading and on the model call.
DemoChat(sid, question) ==
    /\ \E code \in IF question = << >> THEN {400}
                   ELSE IF ~demo.idx[sid] THEN {404}
                   ELSE {200, 500} :
          demo' = [demo EXCEPT !.last = [op |-> "chat", sid |-> sid, code |-> code]]
    /\ DemoUnchanged

DemoNext ==
    \E sid \in Sessions :
       \/ DemoSave(sid)
       \/ DemoExtract(sid)
       \/ DemoBuildIndex(sid)
       \/ DemoDelete(sid)
       \/ \E question \in {<< >>, <<"a">>} : DemoChat(sid, Strip(question))

\* A started request runs to its end and a started cleanup thread wakes up.
DemoFairness ==
    \A sid \in Sessions :
       /\ WF_vars(DemoExtract(sid))
       /\ WF_vars(DemoBuildIndex(sid))
       /\ WF_vars(DemoDelete(sid))

DemoSpec == Init /\ [][DemoNext]_vars /\ DemoFairness

(***************************************************************************)
(* Properties.                                                             *)
(***************************************************************************)
JobIds == 1..Len(jobs)
DocIds == 1..Len(documents)

NonDecreasing(seq) == \A i \in 1..(Len(seq) - 1) : seq[i] <= seq[i + 1]

\* The execution the worker runs or ran last.
CurJob == jobs[w.job_id]
CurDoc == documents[jobs[w.job_id].document_id]

\* C1: the status of a job changes only along queued->processing,
\* processing->completed and processing->failed, over every sequence of
\* executions of process_doc (first delivery, retries, re-deliveries); a
\* completed or failed job keeps its status.
JobTransitions ==
    {<<"queued", "processing">>, <<"processing", "completed">>, <<"processing", "failed">>}

C1_JobStatusMachine ==
    [][\A j \in JobIds :
         jobs'[j].status # jobs[j].status
            => <<jobs[j].status, jobs'[j].status>> \in JobTransitions]_vars

\* C2: when an execution of process_doc ends successfully, the progress
\* values it committed are non-decreasing, the last one is 100 and the job
\* is completed.
C2_ProgressOnSuccess ==
    w.outcome = "completed"
        => /\ NonDecreasing(w.log)
           /\ w.log # << >> /\ w.log[Len(w.log)] = 100
           /\ CurJob.progress = 100
           /\ CurJob.status = "completed"

C2_Witness ==
    /\ w.outcome = "completed"
    /\ Len(w.log) >= 6
    /\ CurJob.job_type = "scrape"

\* C3: when the page-aware chunker returned no chunks (progress 50 is
\* committed right after it), the execution ends with the job failed with a
\* non-empty error message and the document failed; it does not complete
\* the job, writes no Chunk row and makes no vector-index call.
ChunkerRan == \E i \in 1..Len(w.log) : w.log[i] = 50

C3_NoChunksFails ==
    (w.job_id # 0 /\ ChunkerRan /\ Chunks(w.pages) = << >>)
        => /\ w.calls = 0
           /\ w.rows = 0
           /\ w.outcome # "completed"
           /\ w.pc \in {"chunked", "idle"}
           /\ w.pc = "idle"
                => /\ CurJob.status = "failed"
                   /\ CurJob.error_message \notin {None, ""}
                   /\ CurDoc.status = "failed"

C3_Witness ==
    /\ w.pc = "idle" /\ w.job_id # 0 /\ ChunkerRan /\ Chunks(w.pages) = << >>
    /\ CurJob.status = "failed"
    /\ CurJob.error_message = "No text chunks extracted from document"

\* C4: whenever an execution of process_doc ends by raising, the job is
\* failed with the exception's text as its error message and the document
\* is failed.
C4_RaiseMarksFailed ==
    w.outcome = "raised"
        => /\ CurJob.status = "failed"
           /\ CurJob.error_message = w.raised
           /\ CurDoc.status = "failed"

\* C5: a job's progress is in 0..100, and every write to it stores a value
\* not below the previous one, in a commit before or after which the job
\* is processing; over all executions of the job.
C5_ProgressMonotonic ==
    [][\A j \in JobIds :
         /\ jobs'[j].progress \in 0..100
         /\ jobs'[j].progress # jobs[j].progress
              => /\ jobs'[j].progress >= jobs[j].progress
                 /\ "processing" \in {jobs[j].status, jobs'[j].status}]_vars

\* C6: a completed document's chunk_count is the number of its Chunk rows.
RowsOf(d) == {k \in 1..Len(chunks) : chunks[k].document_id = d}

C6_ChunkCount ==
    \A d \in DocIds :
        documents[d].status = "completed"
            => Cardinality(RowsOf(d)) = documents[d].chunk_count

\* C7: a document's status changes only along pending->processing,
\* processing->completed and processing->failed.
DocTransitions ==
    {<<"pending", "processing">>, <<"processing", "completed">>, <<"processing", "failed">>}

C7_DocStatusMachine ==
    [][\A d \in DocIds :
         documents'[d].status # documents[d].status
            => <<documents[d].status, documents'[d].status>> \in DocTransitions]_vars

\* C8: a worker task exists only for a committed job and document, which
\* are queued and pending until the API enqueues the task; every 201
\* response of upload and scrape names a job and a document that exist,
\* belong to the caller and reference each other, with exactly one task
\* enqueued by the API for the job.
C8_EnqueueAfterCommit ==
    /\ \A t \in BagToSet(queue) \cup delivered :
          /\ t.job_id \in JobIds
          /\ jobs[t.job_id].document_id \in DocIds
          /\ apiEnqueued[t.job_id] >= 1
    /\ \A j \in JobIds :
          /\ apiEnqueued[j] <= 1
          /\ apiEnqueued[j] = 0
                => /\ jobs[j].status = "queued"
                   /\ documents[jobs[j].document_id].status = "pending"
    /\ resp.code = 201
          => /\ resp.op \in {"upload", "scrape"}
             /\ resp.jobId \in JobIds
             /\ resp.documentId \in DocIds
             /\ jobs[resp.jobId].user_id = resp.caller
             /\ documents[resp.documentId].user_id = resp.caller
             /\ jobs[resp.jobId].document_id = resp.documentId
             /\ apiEnqueued[resp.jobId] = 1

C8_Witness ==
    /\ resp.code = 201 /\ resp.op = "upload"
    /\ BagToSet(queue) = {Task(resp.jobId, 0, 0)}

\* C9: every vector of the index lies in the namespace of the user who
\* owns its document, whoever wrote it (worker or reindex), and a query
\* cites no document of another user.
C9_NamespaceIsolation ==
    /\ \A v \in index :
          /\ v.doc_id \in DocIds
          /\ v.ns = documents[v.doc_id].user_id
    /\ (resp.op = "query" /\ resp.code = 200)
          => \A d \in resp.sources : documents[d].user_id = resp.caller

\* C10: a step that answers GET upload/status answers 200 with the job's
\* status, progress and error message exactly when the job exists and is
\* the caller's; for another user's job the answer is 403 with none of
\* these fields; the step changes no job and no document.
C10_StatusOwnership ==
    [][resp'.op = "status"
         => /\ UNCHANGED <<jobs, documents>>
            /\ resp'.code = 200
                 <=> (resp'.arg \in JobIds /\ jobs[resp'.arg].user_id = resp'.caller)
            /\ resp'.code = 200
                 => /\ resp'.caller \in 1..Len(users')
                    /\ resp'.jobId = resp'.arg
                    /\ resp'.status = jobs[resp'.arg].status
                    /\ resp'.progress = jobs[resp'.arg].progress
                    /\ resp'.errorMessage = jobs[resp'.arg].error_message
            /\ (resp'.arg \in JobIds /\ resp'.code # 200)
                 => /\ resp'.code = 403
                    /\ resp'.status = None
                    /\ resp'.progress = -1
                    /\ resp'.errorMessage = None]_vars

C10_Witness ==
    /\ resp.op = "status" /\ resp.code = 403
    /\ resp.arg \in JobIds
    /\ jobs[resp.arg].status = "failed"

\* C11: GET brain/<doc_id>/vectors answers a caller who asks for another
\* user's document exactly as it answers a document id that does not exist:
\* 404 with the same body.
C11_NoExistenceLeak ==
    /\ \A u \in 1..Len(users), d \in DocIds :
          documents[d].user_id # u
             => VectorsResponse(documents, u, d)
                   = VectorsResponse(documents, u, Len(documents) + 1)
    /\ (resp.op = "vectors"
          /\ (resp.arg \notin DocIds \/ documents[resp.arg].user_id # resp.caller))
          => resp = [Response("vectors", resp.caller, 404) EXCEPT !.arg = resp.arg]

C11_Witness ==
    /\ resp.op = "vectors" /\ resp.code = 404
    /\ resp.arg \in DocIds
    /\ documents[resp.arg].user_id # resp.caller
    /\ documents[resp.arg].status = "completed"

\* C12: under every interleaving of get_or_create_user calls there is at
\* most one User row per external identifier, and a call whose lookup finds
\* the identifier's row returns that row's id and creates no row.
C12_OneUserPerIdentifier ==
    [][/\ \A i, j \in 1..Len(users') : users'[i] = users'[j] => i = j
       /\ \A t \in Threads :
            (auth[t].pc = "lookup" /\ auth'[t] # auth[t] /\ HasUser(users, auth[t].ext))
               => /\ auth'[t].pc = "done"
                  /\ auth'[t].result \in 1..Len(users)
                  /\ users[auth'[t].result] = auth[t].ext
                  /\ users' = users
       /\ \A t \in Threads :
            auth'[t].pc = "done" => users'[auth'[t].result] = auth'[t].ext]_vars

\* Two calls for the same new identifier raced: one inserted, the other's
\* insert was refused.
C12_Witness ==
    \E t1, t2 \in Threads :
        /\ auth[t1].pc = "done" /\ auth[t2].pc = "raised"
        /\ auth[t1].ext = auth[t2].ext
        /\ Len(users) = 2

\* C13: when a user's upload is completed and the vector index holds a
\* vector of that document that the user's query can match, POST query by
\* that user answers 200 with a source citing the document, not an error
\* and not the nothing-found answer.
C13_QueryAfterIngest ==
    (/\ resp.op = "query"
     /\ \E v \in Matchable(resp.caller, resp.caller) :
           /\ v.doc_id \in DocIds
           /\ documents[v.doc_id].source_type = "upload"
           /\ documents[v.doc_id].status = "completed")
        => /\ resp.code = 200
           /\ \E d \in resp.sources : documents[d].status = "completed"

\* C14: an execution of process_doc for an uploaded document whose file
\* type is none of pdf, txt, text, html, htm makes no vector-index call and
\* ends by raising with the job and the document failed; once the file is
\* downloaded the error is the unsupported-file-type one.
SupportedTypes == {"pdf", "txt", "text", "html", "htm"}

C14_UnsupportedTypeFails ==
    (/\ w.job_id # 0
     /\ CurJob.job_type = "upload"
     /\ CurDoc.file_type \notin SupportedTypes)
        => /\ w.calls = 0
           /\ w.batches = 0
           /\ w.pc \in {"started", "downloaded", "idle"}
           /\ w.pc = "idle"
                => /\ w.outcome = "raised"
                   /\ CurJob.status = "failed"
                   /\ CurDoc.status = "failed"
                   /\ (\E i \in 1..Len(w.log) : w.log[i] = 20)
                        => /\ w.raised = "Unsupported file type: " \o CurDoc.file_type
                           /\ CurJob.error_message = w.raised

C14_Witness ==
    /\ w.pc = "idle" /\ w.job_id # 0
    /\ CurDoc.file_type = "exe"
    /\ w.raised = "Unsupported file type: exe"
    /\ w.log = <<10, 20>>
    /\ CurJob.status = "failed"

C18_ChunkTextOverlap ==
    call.fn = "chunk_text"
        => /\ \A i \in 1..Len(call.chunks) :
                /\ 0 <= call.chunks[i].start_char
                /\ call.chunks[i].end_char - call.chunks[i].start_char <= call.chunk_size
           /\ \A i \in 1..(Len(call.chunks) - 1) :
                call.chunks[i + 1].start_char < call.chunks[i].end_char

\* C17 as stated: with any configured (non-empty) master key,
\* encrypt_api_key of a non-empty s returns a token other than s that
\* decrypt_api_key turns back into s, and both map the empty string to the
\* empty string.
CryptoRoundTrip ==
    /\ (call.fn = "encrypt_api_key" /\ ret.done)
          => /\ ~ret.raised
             /\ call.api_key = << >> => ret.value = << >>
             /\ call.api_key # << >> => ret.value # call.api_key
    /\ (call.fn = "decrypt_api_key")
          => ret = Returned(call.api_key)

ValidMasterKey(master) ==
    /\ master # << >>
    /\ Len(master) = FERNET_KEY_LEN => B64DecodedLen(master) = KEY_BYTES

ColumnOf ==
    [customLLMAPIKey |-> "custom_llm_api_key_encrypted",
     customEmbeddingAPIKey |-> "custom_embedding_api_key_encrypted",
     preferredLLMProvider |-> "preferred_llm_provider",
     metadata |-> "metadata"]

KeyFields == {"customLLMAPIKey", "customEmbeddingAPIKey"}

\* What one successful update made of one field of the caller's row.
FieldUpdated(data, f, master, before, after) ==
    IF f \notin DOMAIN data THEN after = before
    ELSE IF f \notin KeyFields THEN after = data[f]
    ELSE IF data[f] = << >> THEN after = NullText
    ELSE /\ after # data[f]
         /\ after # NullText
         /\ decrypt_api_key(master, after) = Returned(data[f])

\* C16: a successful POST user/settings changes, in the caller's row only,
\* exactly the fields present in the request: a present empty key is
\* cleared, a present non-empty key is stored as its encryption and never as
\* the text sent, a present provider or metadata is stored as sent, and an
\* absent field keeps the value it had.  A request answered with an error
\* changes no settings row at all.
C16_OnlyPresentFieldsChange ==
    [][(call.fn = "update_settings" /\ ret'.done) =>
          LET user_id == UserId(users, call.ext_id)
              before  == SettingsOf(settings, user_id)
              after   == SettingsOf(settings', user_id)
          IN  IF ret'.value # 200 THEN settings' = settings ELSE
              /\ HasSettings(settings', user_id)
              /\ {r \in settings' : r.user_id # user_id}
                   = {r \in settings : r.user_id # user_id}
              /\ Cardinality({r \in settings' : r.user_id = user_id}) = 1
              /\ \E m \in ConfiguredKeys :
                    \A f \in DOMAIN ColumnOf :
                       FieldUpdated(call.data, f, m, before[ColumnOf[f]],
                                    after[ColumnOf[f]])]_vars

\* A row holding a key, a provider and metadata was updated by a request
\* that carried some of them: a stored key sits next to a cleared one.
C16_Witness ==
    /\ ret.done /\ ret.value = 200
    /\ Len(users) = 2
    /\ \E r \in settings :
          /\ r.custom_llm_api_key_encrypted # NullText
          /\ r.custom_embedding_api_key_encrypted = NullText
          /\ r.preferred_llm_provider = "openai"
          /\ r.metadata = "m"

\* The chunks that a finished chunk_pages call returned.
PagesReturned == call.fn = "chunk_pages" /\ ret.done /\ ~ret.raised

\* C19: each chunk returned by chunk_pages is a slice of exactly one page,
\* the page of its number, so that its text never holds content of two
\* pages; the page numbers of the returned chunks never decrease; a page
\* that is empty or only whitespace contributes no chunk.
C19_ChunksStayInOnePage ==
    PagesReturned =>
        /\ \A i \in 1..Len(ret.value) :
              LET c == ret.value[i]
              IN  /\ c.page \in 1..Len(call.pages)
                  /\ c.text = Strip(Slice(call.pages[c.page], c.start_char, c.end_char))
                  /\ \A k \in 1..Len(c.text) : c.text[k] \in {PageLetters[c.page], NL}
                  /\ Strip(call.pages[c.page]) # << >>
                  /\ i > 1 => ret.value[i - 1].page <= c.page
        /\ \A p \in 1..Len(call.pages) :
              Strip(call.pages[p]) = << >> =>
                 \A i \in 1..Len(ret.value) : ret.value[i].page # p

\* Two pages were chunked, a whitespace page skipped before a page cut in
\* several chunks.
C19_Witness ==
    /\ PagesReturned
    /\ Len(call.pages) = 2
    /\ call.pages[1] = <<NL>>
    /\ Len(ret.value) >= 2
    /\ \A i \in 1..Len(ret.value) : ret.value[i].page = 2

\* Both pages of a call contributed chunks, the first page several.
C19_WitnessTwoPages ==
    /\ PagesReturned
    /\ Len(ret.value) >= 3
    /\ ret.value[1].page = 1 /\ ret.value[2].page = 1
    /\ ret.value[Len(ret.value)].page = 2

\* C20: for every PDF byte string, one that neither reader can parse
\* included, extract_text_from_pdf_bytes returns a list of at least one
\* page string and never ends in an error.
C20_PdfAlwaysYieldsPages ==
    (call.fn = "extract_text_from_pdf_bytes" /\ ret.done) =>
        (~ret.raised /\ Len(ret.value) >= 1)

\* What does hold: a call that returns returns at least one page.
C20_ReturnedListNotEmpty ==
    (call.fn = "extract_text_from_pdf_bytes" /\ ret.done /\ ~ret.raised) =>
        Len(ret.value) >= 1

\* The number a query-string argument asks for, when it is one.
Numeric(args, name) == name \in DOMAIN args /\ ~ParseInt(args[name]).raised
Requested(args, name) == ParseInt(args[name]).value

BrainReturned == call.fn = "get_brain" /\ ret.done

\* C21: for every requested limit and offset of GET brain, the effective
\* limit lies in 1..200 (the requested value when that is within 1..200, 20
\* when it is missing or not a number), the effective offset is
\* max(0, requested) (0 when missing or not a number), and the response
\* holds at most the effective limit of documents, all of them the caller's.
C21_PaginationClamped ==
    BrainReturned =>
        LET body == ret.value
            args == call.args
        IN  /\ body.limit \in 1..200
            /\ (Numeric(args, "limit") /\ Requested(args, "limit") \in 1..200)
                  => body.limit = Requested(args, "limit")
            /\ ~Numeric(args, "limit") => body.limit = 20
            /\ Numeric(args, "offset") =>
                  body.offset = (IF Requested(args, "offset") < 0 THEN 0
                                 ELSE Requested(args, "offset"))
            /\ ~Numeric(args, "offset") => body.offset = 0
            /\ Len(body.documents) <= body.limit
            /\ \A i \in 1..Len(body.documents) : body.documents[i].user_id = call.user_id

\* A limit of 0 was raised to 1 and an offset of -5 read as 0, with more
\* documents of the caller than the page holds.
C21_Witness ==
    /\ BrainReturned
    /\ call.args = ("limit" :> <<"0">>) @@ ("offset" :> <<"-", "5">>)
    /\ ret.value.totalDocuments = 3
    /\ Len(ret.value.documents) = 1
    /\ ret.value.offset = 0

\* The session has nothing left on disk.
Expired(sid) == ~demo.file[sid] /\ ~demo.idx[sid]

\* C22: in the standalone demo, for every session whose upload file was
\* written, whether or not extraction or index building then succeeds,
\* eventually neither the uploaded file nor the index directory exists, and
\* from then on they stay away.
C22_SessionsExpire ==
    \A sid \in Sessions : [](demo.file[sid] => <>[]Expired(sid))

\* The sessions for which handle_upload did start a cleanup thread expire.
C22_ScheduledSessionsExpire ==
    \A sid \in Sessions : [](demo.delay[sid] > 0 => <>[]Expired(sid))

\* A chat request with a question for an expired session is answered 404.
C22_ChatAfterExpiry ==
    [][\A sid \in Sessions :
          (DemoChat(sid, <<"a">>) /\ demo.ran[sid]) => demo'.last.code = 404]_vars

\* An execution of process_doc ends in the upsert's except clause.
UpsertFailed == w.pc = "built" /\ w'.pc = "idle" /\ w'.outcome = "raised"

\* The task messages a step sent.
Sent == queue' (-) queue

\* The upsert errors whose text holds one of the codes 429, 500, 503.
CodedErrors == {msg \in UpsertErrors : msg = "429 Too Many Requests"}

\* What the execution raised when it rescheduled itself after n retries.
RetryRaised(n, msg) == "Retry in " \o ToString(60 * (2 ^ n)) \o "s: " \o msg

Rescheduled == \E msg \in CodedErrors : w'.raised = RetryRaised(w.retries, msg)

C24_LateInsertRaises ==
    [][\A t \in Threads :
          (auth[t].pc = "insert" /\ auth'[t] # auth[t] /\ HasUser(users, auth[t].ext))
             => /\ auth'[t].pc = "raised"
                /\ auth'[t].result = 0
                /\ users' = users]_vars

\* Both first calls for one new identifier found no user; the first insert
\* made the only row and the second ended in an error.
C24_Witness ==
    \E t1, t2 \in Threads :
        /\ t1 # t2
        /\ auth[t1].pc = "done" /\ auth[t2].pc = "raised"
        /\ auth[t1].ext = auth[t2].ext
        /\ users = <<auth[t1].ext>>
        /\ auth[t1].result = 1

\* C25: the chunk_index values of the Chunk rows of one document are
\* pairwise distinct and are exactly 0..n-1, n the number of the rows, and
\* each row's vector id is made of the document id and that index; in every
\* reachable state, whatever executions of process_doc came before.
C25_ChunkIndexesContiguous ==
    \A d \in DocIds :
        /\ \A k1, k2 \in RowsOf(d) :
              chunks[k1].chunk_index = chunks[k2].chunk_index => k1 = k2
        /\ {chunks[k].chunk_index : k \in RowsOf(d)} = 0..(Cardinality(RowsOf(d)) - 1)
        /\ \A k \in RowsOf(d) :
              chunks[k].pinecone_id = VectorId(d, chunks[k].chunk_index)

\* What one execution writes: the indexes present are 0..m-1 without a gap
\* and every row's vector id is made of its document and index.
C25_IndexesWithoutGap ==
    \A d \in DocIds :
        /\ \E m \in 0..Len(chunks) : {chunks[k].chunk_index : k \in RowsOf(d)} = 0..(m - 1)
        /\ \A k \in RowsOf(d) :
              chunks[k].pinecone_id = VectorId(d, chunks[k].chunk_index)

\* C26: for every raw reply the text format_response returns is at most
\* 400 characters long and ends in '.', '!', '?', an ellipsis or one of the
\* listed emoji.
C26_ReplyBounded ==
    (call.fn = "format_response" /\ ret.done) =>
        /\ Len(ret.value) <= 400
        /\ ret.value # << >>
        /\ ret.value[Len(ret.value)] \in
              {".", "!", "?", ":sparkles:", ":blush:", ":smile:", ":sweat_smile:"}

\* What does hold: at most 401 characters, and a proper ending.
C26_ReplyBoundedPlusOne ==
    (call.fn = "format_response" /\ ret.done) =>
        /\ Len(ret.value) <= 401
        /\ ret.value # << >>
        /\ ret.value[Len(ret.value)] \in
              {".", "!", "?", ":sparkles:", ":blush:", ":smile:", ":sweat_smile:"}

Terminal == {"completed", "failed"}

\* C27: with a task queue that executes every task it holds, every job
\* created by upload or scrape eventually is completed or failed, and no
\* execution of process_doc ends with its job queued or processing.
C27_JobsReachTerminal ==
    /\ \A j \in 1..MaxDocs :
          [](j \in JobIds => <>(j \in JobIds /\ jobs[j].status \in Terminal))
    /\ [][(w.pc # "idle" /\ w'.pc = "idle") => jobs'[w.job_id].status \in Terminal]_vars

\* The jobs whose task was enqueued and whose executions met no database
\* error do end completed or failed.
C27_ExecutionsWithoutSessionError ==
    [][(w.pc # "idle" /\ w'.pc = "idle" /\ w'.raised # SessionError)
          => jobs'[w.job_id].status \in Terminal]_vars

\* The vector ids the index holds for a document, in any namespace, and the
\* pinecone_id values of the document's Chunk rows.
VectorIdsOf(d) == {v.id : v \in {x \in index : x.doc_id = d}}

RowIdsOf(d) == {chunks[k].pinecone_id : k \in RowsOf(d)}

\* C28: whenever a job is completed or failed, the vector ids in the index
\* for its document are exactly the pinecone_id values of the document's
\* Chunk rows; a failed ingestion leaves no vector without a Chunk row.
C28_IndexMatchesRows ==
    \A j \in JobIds :
        jobs[j].status \in Terminal =>
            VectorIdsOf(jobs[j].document_id) = RowIdsOf(jobs[j].document_id)

\* What does hold: the index and the rows agree for every completed job,
\* and every Chunk row's vector is in the index.
C28_CompletedIndexMatchesRows ==
    /\ \A j \in JobIds :
          jobs[j].status = "completed" =>
              VectorIdsOf(jobs[j].document_id) = RowIdsOf(jobs[j].document_id)
    /\ \A d \in 1..Len(documents) : RowIdsOf(d) \subseteq VectorIdsOf(d)

\* A step in which POST upload or POST scrape answers 500.
Answers500 == resp'.code = 500 /\ resp'.op \in {"upload", "scrape"}

\* C29: a POST upload or POST scrape that answers 500 has no lasting
\* effect: no file of the request stays in storage, no Document or
\* IngestJob row of the request remains, and no task was enqueued for it.
C29_FailedRequestLeavesNothing ==
    [][Answers500 =>
          /\ queue' = queue
          /\ apiEnqueued' = apiEnqueued
          /\ IF req.pc = "committed"
             THEN /\ req.job_id \notin 1..Len(jobs')
                  /\ req.document_id \notin 1..Len(documents')
                  /\ documents[req.document_id].storage_path \notin 1..Len(storage')
             ELSE /\ storage' = storage
                  /\ documents' = documents
                  /\ jobs' = jobs]_vars

\* What does hold: a request that answers 500 enqueued no task.
C29_FailedRequestEnqueuesNothing ==
    [][Answers500 => queue' = queue /\ apiEnqueued' = apiEnqueued]_vars

\* An iteration of a window loop: a chunk was appended.  The configuration
\* of the call has overlap < chunk_size.
WindowIteration ==
    /\ call.fn \in {"chunk_text", "chunk_pages"}
    /\ call'.fn = call.fn
    /\ Len(call'.chunks) = Len(call.chunks) + 1
    /\ call.fn = "chunk_text" => call.chunk_overlap < call.chunk_size
    /\ call.fn = "chunk_pages" => call.overlap < call.max_chars

\* C30: with overlap < chunk_size the window loops of chunk_text and
\* chunk_pages terminate: every iteration leaves a start offset strictly
\* greater than the one it began with, and never a negative one.
C30_StartStrictlyIncreases ==
    [][WindowIteration => (call'.start > call.start /\ call'.start >= 0)]_vars

\* What does hold: an iteration whose window was not cut at a break, or
\* whose overlap is less than half the chunk size, moves the start forward.
C30_SmallOverlapIncreases ==
    [][(/\ WindowIteration
        /\ call.fn = "chunk_text" => 2 * call.chunk_overlap < call.chunk_size
        /\ call.fn = "chunk_pages" => 2 * call.overlap < call.max_chars)
          => (call'.start > call.start /\ call'.start >= 0)]_vars

====
